---- MODULE Spec2Model ----
(***************************************************************************)
(* Room session orchestration of I-mean-chat.                              *)
(*                                                                         *)
(* One room is modelled.  The program is an asyncio application: every     *)
(* coroutine runs atomically between two awaits that really suspend it     *)
(* (database round trips, asyncio.sleep, awaiting an unfinished task).     *)
(* Each action below is one such atomic stretch of one coroutine.          *)
(*                                                                         *)
(*   Spec    the session state machine (app/session.py) driven by the     *)
(*           websocket handlers (app/routers/websockets.py)                *)
(*   SpecCM  the connection registry and message dispatcher                *)
(*           (app/connection_manager.py)                                   *)
(*                                                                         *)
(* Modelling decisions of Spec:                                            *)
(*  - db.get / db.commit are suspension points; a read returns the         *)
(*    committed row at the moment the coroutine resumes and a commit       *)
(*    becomes visible at the moment the coroutine resumes.                 *)
(*  - task.cancel() on a suspended task ends it at its suspension point:   *)
(*    a cancelled task executes no further statement of its own.           *)
(*  - ConnectionManager.connect / disconnect have no suspension point      *)
(*    after websocket.accept(), so the registry update of each is one      *)
(*    atomic step.                                                         *)
(*  - broadcast_to_room does not suspend while the queue is not full; the  *)
(*    items a call appends are recorded in enq.  A full queue only delays  *)
(*    the put, except for a caller with a pending cancellation (TimerTr2). *)
(*  - "elapsed_time >= session_timeout_duration" is a nondeterministic     *)
(*    event (TimerExpire).                                                 *)
(***************************************************************************)
EXTENDS Integers, Sequences, FiniteSets, TLC

\* ------------------------------------------------------------- bounds
\* websocket connections (channels) that are ever opened
MaxChan == 3
\* Session rows that are ever inserted
MaxSid == 3
\* "response" messages that are ever received: when only the two
\* participants connect, when a third identity connects as well, and when
\* one participant connects twice
MaxVotes == 4
MaxVotesThird == 2
MaxVotesReconnect == 4

\* session_action messages the legacy chat endpoint receives
MaxSubmit == 5

\* rooms, and the capacity of a room's queue where several rooms are
\* followed (maxsize=100 in connection_manager.py:32, scaled down)
MaxRooms == 2
RoomQueueSize == 1

\* asyncio.Lock objects that are ever created for the room, chat messages
\* that are ever logged, the last tick of the clock, and
\* settings.SESSION_DURATION_MINUTES in ticks
MaxLocks == 3
\* broadcasts that reach the room before anybody has joined it
MaxLate == 1
MaxMsgs == 3
MaxNow == 5
Duration == 2

\* queue objects that are ever created, items that are ever handed to
\* broadcast_to_room, and the capacity of a queue (maxsize=100 in
\* connection_manager.py:32, scaled down)
MaxQueues == 3
MaxEv == 3
QueueSize == 2

Chans == 1..MaxChan

\* Session.topic values (session.py:42, session.py:162)
Situation == "topic_1_situation"
Emotion == "topic_2_emotion"

VARIABLES
    userOf,            \* channel -> memberId of its token (fixed per run)
    hpc,               \* channel -> position of its websocket_endpoint coroutine
    hloc,              \* channel -> locals of that coroutine
    active,            \* ConnectionManager.active_connections[room] (dict, insertion order)
    rows,              \* table sessions: rows[i] is the row with session_id i
    room_sessions,     \* SessionManager.room_sessions[room]   (sid 0: absent)
    session_tasks,     \* SessionManager.session_tasks[room]   (pc "none": absent)
    orphans,           \* live timeout tasks no longer referenced by session_tasks
    awaiters,          \* coroutines suspended in "await self.session_tasks[room_id]"
    session_responses, \* SessionManager.session_responses[room]
    enq,               \* items appended to the room queue by the latest broadcaster calls
    nVotes,            \* number of "response" messages received so far
    round,             \* history: "open" since the latest prompt, "resolved" once it was acted on
    pending_messages,  \* ConnectionManager.pending_messages[room]: id of the queue object (0: absent)
    queues,            \* queue object id -> its items (asyncio.Queue._queue)
    nQueues,           \* number of queue objects created so far
    putters,           \* producers suspended in Queue.put (Queue._putters), tagged by queue
    wokenPut,          \* producers woken by a get and not yet resumed, in wake-up order
    processor,         \* ConnectionManager._message_processor_tasks[room]
    sock,              \* channel -> the client side of the websocket is open
    received,          \* history: user -> sequence numbers of the events sent to its socket
    nEnq,              \* history: number of items put into queues so far
    nProcessors,       \* history: process_messages tasks created and neither finished nor cancelled
    room_lock,         \* ConnectionManager._room_connection_locks has an entry for the room
    vcRow,             \* api: the Session row the votes are about (topic, extension_used, is_active)
    vcTimer,           \* api: ConnectionManager.session_timers has a sleeping task for the session
    vcResponses,       \* api: ConnectionManager.user_responses[session_id]
    vcPending,         \* api: ConnectionManager.pending_questions[session_id]
    vcpc,              \* api: user -> position of its chat_websocket handler
    vcRet,             \* history: the latest record_user_response call and what it returned
    vcRounds,          \* history: number of ask_to_continue calls
    vcVoted,           \* history: the users that submitted since ask_to_continue
    vcAll,             \* history: number of 'all_responses_received' returned
    vcActs,            \* history: extensions, advances and ends by vote handlers since the question
    nSub,              \* history: number of session_action messages received
    rmState,           \* room_id -> that room's entries in the dictionaries of both managers
    rmQueue,           \* key -> the entry of ConnectionManager.pending_messages under that key
    lastRoom,          \* history: the room_id the latest room operation was called with
    lkDict,            \* lock: id of the lock in _room_connection_locks[room] (0: absent)
    lkHeld,            \* lock: lock id -> the channel whose coroutine holds it (0: free)
    lkWait,            \* lock: lock id -> the channels suspended in acquire(), in order
    lkpc,              \* lock: channel -> position of its coroutine in connect / disconnect
    lkloc,             \* lock: channel -> the lock its coroutine got from _get_room_lock
    lkReg,             \* lock: the user ids in active_connections[room]
    nLocks,            \* lock: number of asyncio.Lock objects created so far
    chClock,           \* chat: datetime.utcnow(), in ticks
    chpc,              \* chat: channel -> position of its handler in the chat relay
    chTs,              \* chat: channel -> timestamp of the ChatLog row it is committing
    chQueue,           \* chat: the chat messages in the order they were put into the room queue
    now,               \* clock: datetime.utcnow(), in ticks
    ckRow,             \* clock: the session row (start_time, extension_used, end_time set)
    ckMem,             \* clock: start_time of the session object in room_sessions[room]
    ckTask,            \* clock: position of the timeout task in session_tasks[room]
    ckVotes,           \* clock: the users in session_responses[room]
    ckpc,              \* clock: position of the handler that resolves the votes, and its start_time value
    ckActed            \* clock: history: the latest timeout action, its time and the start time then

\* the variables of the connection manager
cmvars == <<pending_messages, queues, nQueues, putters, wokenPut, processor,
            sock, received, nEnq, nProcessors, room_lock>>

\* the variables of the session-keyed vote collector (app/api)
vcvars == <<vcRow, vcTimer, vcResponses, vcPending, vcpc, vcRet, vcRounds, vcVoted,
          vcAll, vcActs, nSub>>

\* the variables of the room-keyed dictionaries of both managers
rmvars == <<rmState, rmQueue, lastRoom>>

\* the variables of the room lock, the chat relay and the clocked timeout
lkvars == <<lkDict, lkHeld, lkWait, lkpc, lkloc, lkReg, nLocks>>
chvars == <<chClock, chpc, chTs, chQueue>>
ckvars == <<now, ckRow, ckMem, ckTask, ckVotes, ckpc, ckActed>>
auxvars == <<lkvars, chvars, ckvars>>

\* the variables of the session manager
smvars == <<hloc, rows, room_sessions, session_tasks, orphans, awaiters,
            session_responses, enq, nVotes, round>>

vars == <<userOf, hpc, hloc, active, rows, room_sessions, session_tasks,
          orphans, awaiters, session_responses, enq, nVotes, round,
          pending_messages, queues, nQueues, putters, wokenPut, processor,
          sock, received, nEnq, nProcessors, room_lock,
          vcRow, vcTimer, vcResponses, vcPending, vcpc, vcRet, vcRounds, vcVoted,
          vcAll, vcActs, nSub, rmState, rmQueue, lastRoom,
          lkDict, lkHeld, lkWait, lkpc, lkloc, lkReg, nLocks,
          chClock, chpc, chTs, chQueue,
          now, ckRow, ckMem, ckTask, ckVotes, ckpc, ckActed>>

\* ------------------------------------------------------------- values
NoSession == [sid |-> 0, ended |-> FALSE]
NoTask == [sid |-> 0, pc |-> "none", users |-> {}]
DoneTask == [sid |-> 0, pc |-> "done", users |-> {}]
NoResponses == [present |-> FALSE, votes |-> {}]
NoLocals == [sid |-> 0, users |-> {}, any |-> FALSE, all |-> FALSE]
\* seq and empty are history: the rank of the put, whether nobody was registered then
NoItem == [seq |-> 0, to |-> 0, empty |-> FALSE]
NoProcessor == [pc |-> "none", q |-> 0, item |-> NoItem, todo |-> {}]

\* asyncio.create_task(self._check_session_timeout(room_id, db, sid))
NewTask(sid) == [sid |-> sid, pc |-> "sleep", users |-> {}]

IsLive(t) == t.pc \notin {"none", "done"}

\* the number of users of a session (websockets.py:149)
PairSize == 2

\* who opens which channel (0: the channel is never opened): only the two
\* participants connect; every channel is another identity; the channels
\* beyond the second are further connections of the two participants
PairMap == [c \in Chans |-> IF c <= PairSize THEN c ELSE 0]
ThirdMap == [c \in Chans |-> c]
ReconnectMap == [c \in Chans |-> ((c - 1) % PairSize) + 1]
UserMaps == {PairMap, ThirdMap, ReconnectMap}

\* the user id of a token without memberId: str(None), the text "None"
\* (websockets.py:68)
NoneId == MaxChan + 1

\* the mark of a channel whose token verify_token rejects (security.py:22-31)
Invalid == 0 - 1

\* the two participants and one more connection attempt, with a token that
\* has no memberId or with a token that fails verification
AnonMap == [c \in Chans |-> IF c <= PairSize THEN c ELSE NoneId]
BadMap == [c \in Chans |-> IF c <= PairSize THEN c ELSE Invalid]
AuthMaps == {AnonMap, BadMap}

\* the answers that are sent (websockets.py:195-196): when one participant
\* connects twice only "no" is sent
VoteChoices == IF userOf = ReconnectMap THEN {FALSE} ELSE BOOLEAN

VoteBudget ==
    IF userOf \in {PairMap, BadMap} THEN MaxVotes
    ELSE IF userOf \in {ThirdMap, AnonMap} THEN MaxVotesThird
    ELSE MaxVotesReconnect

\* --------------------------------------------------- connection registry
\* list(active_connections[room].keys())
Keys == [i \in 1..Len(active) |-> active[i].u]
Members == {active[i].u : i \in 1..Len(active)}

\* a registry that keeps the old socket of a user next to the new one
RegisterBoth(u, ch) == Append(active, [u |-> u, ch |-> ch])

\* active_connections[room_id][user_id] = websocket   (connection_manager.py:43)
Register(u, ch) ==
    IF u \in Members
    THEN [i \in 1..Len(active) |->
             IF active[i].u = u THEN [u |-> u, ch |-> ch] ELSE active[i]]
    ELSE Append(active, [u |-> u, ch |-> ch])

\* del active_connections[room_id][user_id]           (connection_manager.py:88)
Unregister(u) == SelectSeq(active, LAMBDA e : e.u # u)

\* --------------------------------------------------------------- queue
\* an event addressed to every member whatever its target
EvToAll(type, sid, to) == [type |-> type, sid |-> sid, to |-> 0]

\* a queued message: its kind, the session it announces, its target user
\* (0: every member)
Ev(type, sid, to) == [type |-> type, sid |-> sid, to |-> to]

\* the items of one or more consecutive broadcaster calls of one step
Enq(items) == [items |-> items, bit |-> 1 - enq.bit]

\* ----------------------------------------------------------- responses
\* self.session_responses[room_id][user_id] = response    (session.py:198-199)
PutVote(u, b) ==
    [present |-> TRUE,
     votes |-> {p \in session_responses.votes : p[1] # u} \cup {<<u, b>>}]

InitBase(maps) ==
    /\ userOf \in maps
    /\ hpc = [c \in Chans |-> "idle"]
    /\ hloc = [c \in Chans |-> NoLocals]
    /\ active = <<>>
    /\ rows = <<>>
    /\ room_sessions = NoSession
    /\ session_tasks = NoTask
    /\ orphans = {}
    /\ awaiters = <<>>
    /\ session_responses = NoResponses
    /\ enq = [items |-> <<>>, bit |-> 0]
    /\ nVotes = 0
    /\ round = "none"
    /\ pending_messages = 0
    /\ queues = [q \in 1..MaxQueues |-> <<>>]
    /\ nQueues = 0
    /\ putters = <<>>
    /\ wokenPut = <<>>
    /\ processor = NoProcessor
    /\ sock = [c \in Chans |-> FALSE]
    /\ received = [u \in Chans |-> <<>>]
    /\ nEnq = 0
    /\ nProcessors = 0
    /\ room_lock = FALSE

\* api/sessions.py:53-58 and a Session row of one of the topics, its timer
\* started (api/sessions.py:134-168)
VCStart(topics) ==
    /\ vcRow \in [topic : topics, ext : {FALSE}, active : {TRUE}]
    /\ vcTimer = TRUE
    /\ vcResponses = NoResponses
    /\ vcPending = [present |-> FALSE, users |-> {}]
    /\ vcpc = [u \in Chans |-> "loop"]
    /\ vcRet = [user |-> 0, value |-> FALSE, ret |-> "none"]
    /\ vcRounds = 0
    /\ vcVoted = {}
    /\ vcAll = 0
    /\ vcActs = 0
    /\ nSub = 0

\* connection_manager.py:6-14 and session.py:15-21: every dictionary empty
NoRoom ==
    [members |-> {}, proc |-> "none", lock |-> FALSE, session |-> FALSE,
     timer |-> FALSE, votes |-> {}, blocked |-> FALSE, failed |-> FALSE]
NoQueue == [has |-> FALSE, len |-> 0]

RoomsStart ==
    /\ rmState = [r \in 1..MaxRooms |-> NoRoom]
    /\ rmQueue = [r \in 1..MaxRooms |-> NoQueue]
    /\ lastRoom = 0

\* connection_manager.py:14: no lock, nobody connected
LockStart ==
    /\ lkDict = 0
    /\ lkHeld = [l \in 1..MaxLocks |-> 0]
    /\ lkWait = [l \in 1..MaxLocks |-> <<>>]
    /\ lkpc = [c \in Chans |-> "idle"]
    /\ lkloc = [c \in Chans |-> 0]
    /\ lkReg = {}
    /\ nLocks = 0

\* websockets.py:176-236: the handlers are in their receive loops
ChatStart ==
    /\ chClock = 1
    /\ chpc = [c \in Chans |-> "loop"]
    /\ chTs = [c \in Chans |-> 0]
    /\ chQueue = <<>>

\* session.py:38-61: a session has just been started at tick 0, its
\* timeout task is asleep
ClockStart ==
    /\ now = 0
    /\ ckRow = [start |-> 0, ext |-> FALSE, ended |-> FALSE]
    /\ ckMem = 0
    /\ ckTask = "sleep"
    /\ ckVotes = {}
    /\ ckpc = [pc |-> "loop", t |-> 0]
    /\ ckActed = [kind |-> "none", at |-> 0, start |-> 0]

InitFor(maps) ==
    InitBase(maps) /\ VCStart({Situation}) /\ RoomsStart /\ LockStart /\ ChatStart
        /\ ClockStart

Init == InitFor(UserMaps)

\* ======================================================= join and start
\* websocket_endpoint up to and including ConnectionManager.connect
Connect(c) ==
    /\ hpc[c] = "idle"
    /\ userOf[c] \notin {0, Invalid}
    /\ active' = Register(userOf[c], c)
    /\ hpc' = [hpc EXCEPT ![c] = "joined"]
    /\ UNCHANGED <<userOf, hloc, rows, room_sessions, session_tasks, orphans,
                   awaiters, session_responses, enq, nVotes, round>>
    /\ UNCHANGED <<cmvars, vcvars, rmvars, auxvars>>

\* websockets.py:141-158 and session.py:30-46: the handler counts the
\* connected users, reads the current session and, with two users and no
\* session, builds the Situation session and awaits db.commit(); int() of
\* a user id that is no number raises and no session is started
JoinCheck(c) ==
    /\ hpc[c] = "joined"
    /\ IF Len(active) = PairSize /\ room_sessions.sid = 0 /\ NoneId \notin Members
       THEN /\ hpc' = [hpc EXCEPT ![c] = "start_commit"]
            /\ hloc' = [hloc EXCEPT ![c] = [NoLocals EXCEPT !.users = {Keys[1], Keys[2]}]]
       ELSE /\ hpc' = [hpc EXCEPT ![c] = "loop"]
            /\ hloc' = hloc
    /\ UNCHANGED <<userOf, active, rows, room_sessions, session_tasks, orphans,
                   awaiters, session_responses, enq, nVotes, round>>
    /\ UNCHANGED <<cmvars, vcvars, rmvars, auxvars>>

\* session.py:46-61: the commit returns; the new session becomes the room's
\* session; a task found in session_tasks is cancelled and awaited (an
\* unfinished task suspends the caller), then the new timeout task is created
StartCommitted(c) ==
    /\ hpc[c] = "start_commit"
    /\ Len(rows) < MaxSid
    /\ LET sid == Len(rows) + 1 IN
       /\ rows' = Append(rows, [topic |-> Situation, nExt |-> 0, ended |-> FALSE,
                                users |-> hloc[c].users])
       /\ room_sessions' = [sid |-> sid, ended |-> FALSE]
       /\ hloc' = [hloc EXCEPT ![c].sid = sid]
       /\ \/ \* no task in session_tasks, or a finished one whose completion
             \* has been processed: line 59 follows at once
             /\ ~IsLive(session_tasks)
             /\ session_tasks' = NewTask(sid)
             /\ awaiters' = awaiters
             /\ hpc' = [hpc EXCEPT ![c] = "start_sleep"]
          \/ \* a live task is cancelled, or a cancelled one has not finished
             \* yet: the handler suspends at line 55
             /\ \/ IsLive(session_tasks)
                \/ session_tasks.pc = "done" /\ awaiters # <<>>
             /\ session_tasks' = DoneTask
             /\ awaiters' = Append(awaiters, c)
             /\ hpc' = [hpc EXCEPT ![c] = "start_await"]
    /\ UNCHANGED <<userOf, active, orphans, session_responses, enq, nVotes, round>>
    /\ UNCHANGED <<cmvars, vcvars, rmvars, auxvars>>

\* the tasks the handlers in ws (in wake-up order) create at line 59, the
\* last one ending up in session_tasks
RECURSIVE ArmAll(_, _, _)
ArmAll(ws, slot, orph) ==
    IF ws = <<>> THEN <<slot, orph>>
    ELSE ArmAll(Tail(ws), NewTask(hloc[Head(ws)].sid),
                IF IsLive(slot) THEN orph \cup {slot} ELSE orph)

\* session.py:55-61: the cancelled task finishes; the handlers awaiting it
\* are woken in the order they suspended and run back to back, each
\* storing a new timeout task over whatever session_tasks holds
AwaitResume ==
    /\ awaiters # <<>>
    /\ LET r == ArmAll(awaiters, session_tasks, orphans) IN
       /\ session_tasks' = r[1]
       /\ orphans' = r[2]
    /\ hpc' = [c \in Chans |-> IF hpc[c] = "start_await" THEN "start_sleep" ELSE hpc[c]]
    /\ awaiters' = <<>>
    /\ UNCHANGED <<userOf, hloc, active, rows, room_sessions, session_responses,
                   enq, nVotes, round>>
    /\ UNCHANGED <<cmvars, vcvars, rmvars, auxvars>>

\* session.py:64-86 and websockets.py:159-179: after the one-second sleep
\* the introduction and the session-start message are broadcast and the
\* handler enters its receive loop
StartAnnounce(c) ==
    /\ hpc[c] = "start_sleep"
    /\ enq' = Enq(<<Ev("intro", 0, 0), Ev("session_start", hloc[c].sid, 0)>>)
    /\ hpc' = [hpc EXCEPT ![c] = "loop"]
    /\ hloc' = [hloc EXCEPT ![c] = NoLocals]
    /\ UNCHANGED <<userOf, active, rows, room_sessions, session_tasks, orphans,
                   awaiters, session_responses, nVotes, round>>
    /\ UNCHANGED <<cmvars, vcvars, rmvars, auxvars>>

\* a second Situation row instead of the Emotion row
RepeatedSituationRow(users) ==
    [topic |-> Situation, nExt |-> 0, ended |-> FALSE, users |-> users]

\* session.py:160-163: the Session row of the second topic
EmotionRow(users) ==
    [topic |-> Emotion, nExt |-> 0, ended |-> FALSE, users |-> users]

\* ======================================================== timeout tasks
\* a live timeout task: <<TRUE, t>> is the one session_tasks holds,
\* <<FALSE, t>> one that was overwritten there without being cancelled
LiveTasks ==
    (IF IsLive(session_tasks) THEN {<<TRUE, session_tasks>>} ELSE {})
        \cup {<<FALSE, t>> : t \in orphans}

\* session_tasks after task d moved to t2 (its coroutine went on)
SlotAfterMove(d, t2) == IF d[1] THEN t2 ELSE session_tasks
OrphansAfterMove(d, t2) == IF d[1] THEN orphans ELSE (orphans \ {d[2]}) \cup {t2}
\* ... and after task d returned
SlotAfterReturn(d) == IF d[1] THEN DoneTask ELSE session_tasks
OrphansAfterReturn(d) == IF d[1] THEN orphans ELSE orphans \ {d[2]}

\* session.py:100-103: the staleness test of _check_session_timeout
IsStale(t) == room_sessions.sid = 0 \/ room_sessions.sid # t.sid

\* session.py:98-103: the task wakes up, finds another (or no) session in
\* room_sessions and ends
TimerStale(d) ==
    /\ d \in LiveTasks
    /\ d[2].pc = "sleep"
    /\ IsStale(d[2])
    /\ session_tasks' = SlotAfterReturn(d)
    /\ orphans' = OrphansAfterReturn(d)
    /\ UNCHANGED <<userOf, hpc, hloc, active, rows, room_sessions, awaiters,
                   session_responses, enq, nVotes, round>>
    /\ UNCHANGED <<cmvars, vcvars, rmvars, auxvars>>

\* session.py:98-115: the task wakes up, its session is current and its
\* time is up; it awaits db.get
TimerExpire(d) ==
    /\ d \in LiveTasks
    /\ d[2].pc = "sleep"
    /\ ~IsStale(d[2])
    /\ session_tasks' = SlotAfterMove(d, [d[2] EXCEPT !.pc = "get"])
    /\ orphans' = OrphansAfterMove(d, [d[2] EXCEPT !.pc = "get"])
    /\ UNCHANGED <<userOf, hpc, hloc, active, rows, room_sessions, awaiters,
                   session_responses, enq, nVotes, round>>
    /\ UNCHANGED <<cmvars, vcvars, rmvars, auxvars>>

\* session.py:127-138: extension not used yet: the prompt is broadcast and
\* session_responses[room] is reset; the task is complete
TimerPrompt(d) ==
    /\ d \in LiveTasks
    /\ d[2].pc = "get"
    /\ rows[d[2].sid].nExt = 0
    /\ enq' = Enq(<<Ev("prompt", d[2].sid, 0)>>)
    /\ session_responses' = [present |-> TRUE, votes |-> {}]
    /\ session_tasks' = SlotAfterReturn(d)
    /\ orphans' = OrphansAfterReturn(d)
    /\ round' = "open"
    /\ UNCHANGED <<userOf, hpc, hloc, active, rows, room_sessions, awaiters, nVotes>>
    /\ UNCHANGED <<cmvars, vcvars, rmvars, auxvars>>

\* session.py:120-125 with 144-149 or 182-187: extension already used: the
\* task sets end_time and awaits the commit of the topic's end
TimerAuto(d) ==
    /\ d \in LiveTasks
    /\ d[2].pc = "get"
    /\ rows[d[2].sid].nExt > 0
    /\ LET t2 == [d[2] EXCEPT !.pc = IF rows[d[2].sid].topic = Situation
                                     THEN "tr1" ELSE "end1"] IN
       /\ session_tasks' = SlotAfterMove(d, t2)
       /\ orphans' = OrphansAfterMove(d, t2)
    /\ UNCHANGED <<userOf, hpc, hloc, active, rows, room_sessions, awaiters,
                   session_responses, enq, nVotes, round>>
    /\ UNCHANGED <<cmvars, vcvars, rmvars, auxvars>>

\* session.py:149-165 run by a timeout task: the Situation row is closed;
\* with fewer than two users connected the transition is abandoned,
\* otherwise the Emotion session is built and its commit awaited
TimerTr1(d) ==
    /\ d \in LiveTasks
    /\ d[2].pc = "tr1"
    /\ rows' = [rows EXCEPT ![d[2].sid].ended = TRUE]
    /\ IF Len(active) < 2
       THEN /\ session_tasks' = SlotAfterReturn(d)
            /\ orphans' = OrphansAfterReturn(d)
       ELSE LET t2 == [d[2] EXCEPT !.pc = "tr2", !.users = {Keys[1], Keys[2]}] IN
            /\ session_tasks' = SlotAfterMove(d, t2)
            /\ orphans' = OrphansAfterMove(d, t2)
    /\ UNCHANGED <<userOf, hpc, hloc, active, room_sessions, awaiters,
                   session_responses, enq, nVotes, round>>
    /\ UNCHANGED <<cmvars, vcvars, rmvars, auxvars>>

\* session.py:165-180 run by a timeout task: the Emotion session becomes
\* current, the task in session_tasks is cancelled and replaced, the
\* transition message is broadcast.  A task that is itself the one in
\* session_tasks has cancelled itself at line 170: the cancellation is
\* delivered at its next suspension, which is Queue.put at line 180 when
\* the room's queue is full; the message is then never put
TimerTr2(d) ==
    /\ d \in LiveTasks
    /\ d[2].pc = "tr2"
    /\ Len(rows) < MaxSid
    /\ LET sid == Len(rows) + 1 IN
       /\ rows' = Append(rows, EmotionRow(d[2].users))
       /\ room_sessions' = [sid |-> sid, ended |-> FALSE]
       /\ session_tasks' = NewTask(sid)
       /\ \E full \in BOOLEAN :
             enq' = IF d[1] /\ full THEN enq ELSE Enq(<<Ev("transition", sid, 0)>>)
    /\ orphans' = OrphansAfterReturn(d)
    /\ UNCHANGED <<userOf, hpc, hloc, active, awaiters, session_responses, nVotes, round>>
    /\ UNCHANGED <<cmvars, vcvars, rmvars, auxvars>>

\* session.py:187-194 with 288-300 run by a timeout task: the Emotion row
\* is closed, the closing message broadcast, the room's data cleared
TimerEnd(d) ==
    /\ d \in LiveTasks
    /\ d[2].pc = "end1"
    /\ rows' = [rows EXCEPT ![d[2].sid].ended = TRUE]
    /\ enq' = Enq(<<Ev("final", 0, 0)>>)
    /\ room_sessions' = NoSession
    /\ session_tasks' = NoTask
    /\ session_responses' = NoResponses
    /\ orphans' = OrphansAfterReturn(d)
    /\ UNCHANGED <<userOf, hpc, hloc, active, awaiters, nVotes, round>>
    /\ UNCHANGED <<cmvars, vcvars, rmvars, auxvars>>

\* ================================================================ votes
\* history only: a prompt that was acted on is resolved until the next prompt
Resolved == IF round = "open" THEN "resolved" ELSE round

\* all(responses_map.values()), any(responses_map.values())  (session.py:222-223)
AllYes(votes) == \A p \in votes : p[2]
AnyYes(votes) == \E p \in votes : p[2]

\* websockets.py:188-198 and session.py:196-225: a "response" message is
\* received; without a current session the sender gets an error, otherwise
\* the vote is stored and, with two users connected, answered by "waiting"
\* (one vote stored) or resolved (two votes stored: await db.get)
Respond(c, b) ==
    /\ hpc[c] = "loop"
    /\ IF room_sessions.sid = 0
       THEN UNCHANGED <<hpc, hloc, session_responses, enq>>
       ELSE LET r == PutVote(userOf[c], b) IN
            /\ session_responses' = r
            /\ IF Len(active) >= 2 /\ Cardinality(r.votes) = 1
               THEN enq' = Enq(<<Ev("wait", 0, userOf[c])>>)
               ELSE enq' = enq
            /\ IF Len(active) >= 2 /\ Cardinality(r.votes) = 2
               THEN /\ hpc' = [hpc EXCEPT ![c] = "vote_get"]
                    /\ hloc' = [hloc EXCEPT ![c] =
                                  [sid |-> room_sessions.sid, users |-> {},
                                   any |-> AnyYes(r.votes), all |-> AllYes(r.votes)]]
               ELSE UNCHANGED <<hpc, hloc>>
    /\ UNCHANGED <<userOf, active, rows, room_sessions, session_tasks, orphans, awaiters, round>>
    /\ UNCHANGED <<cmvars, vcvars, rmvars, auxvars>>

\* a "response" message of a client, within the bound on the number of
\* responses of a run
Vote(c, b) ==
    /\ nVotes < VoteBudget
    /\ nVotes' = nVotes + 1
    /\ Respond(c, b)

\* session.py:225-240 / 257-262: the row is read; on any yes the extension
\* is written and its commit awaited, otherwise the topic's end is written
\* and its commit awaited
VoteGet(c) ==
    /\ hpc[c] = "vote_get"
    /\ hpc' = [hpc EXCEPT ![c] =
                 IF hloc[c].all \/ hloc[c].any THEN "ext_commit"
                 ELSE IF rows[hloc[c].sid].topic = Situation THEN "tr1" ELSE "end1"]
    /\ UNCHANGED <<userOf, hloc, active, rows, room_sessions, session_tasks, orphans,
                   awaiters, session_responses, enq, nVotes, round>>
    /\ UNCHANGED <<cmvars, vcvars, rmvars, auxvars>>

\* a row whose extension is not recorded
NotExtended(row) == row

\* session.py:238-239: extension_used = True, start_time = now
Extended(row) == [row EXCEPT !.nExt = @ + 1]

\* session.py:235-236: the wording of the extension message
ExtendedText(all) == IF all THEN "extended_all" ELSE "extended_one"

\* session.py:240-256, 264: the extension is committed: extension_used is
\* set and start_time reset, the refreshed row becomes the room's session,
\* the extension message is broadcast, the task in session_tasks is
\* cancelled and replaced, the responses are deleted
ExtCommit(c) ==
    /\ hpc[c] = "ext_commit"
    /\ LET sid == hloc[c].sid IN
       /\ rows' = [rows EXCEPT ![sid] = Extended(@)]
       /\ room_sessions' = [sid |-> sid, ended |-> rows[sid].ended]
       /\ enq' = Enq(<<Ev(ExtendedText(hloc[c].all), sid, 0)>>)
       /\ session_tasks' = NewTask(sid)
    /\ session_responses' = NoResponses
    /\ hpc' = [hpc EXCEPT ![c] = "loop"]
    /\ hloc' = [hloc EXCEPT ![c] = NoLocals]
    /\ round' = Resolved
    /\ UNCHANGED <<userOf, active, orphans, awaiters, nVotes>>
    /\ UNCHANGED <<cmvars, vcvars, rmvars, auxvars>>

\* session.py:149-165 run by a vote handler (then 264 when abandoned)
VoteTr1(c) ==
    /\ hpc[c] = "tr1"
    /\ rows' = [rows EXCEPT ![hloc[c].sid].ended = TRUE]
    /\ IF Len(active) < 2
       THEN /\ session_responses' = NoResponses
            /\ hpc' = [hpc EXCEPT ![c] = "loop"]
            /\ hloc' = [hloc EXCEPT ![c] = NoLocals]
            /\ round' = Resolved
       ELSE /\ session_responses' = session_responses
            /\ hpc' = [hpc EXCEPT ![c] = "tr2"]
            /\ hloc' = [hloc EXCEPT ![c].users = {Keys[1], Keys[2]}]
            /\ round' = round
    /\ UNCHANGED <<userOf, active, room_sessions, session_tasks, orphans, awaiters,
                   enq, nVotes>>
    /\ UNCHANGED <<cmvars, vcvars, rmvars, auxvars>>

\* session.py:165-180, 264 run by a vote handler
VoteTr2(c) ==
    /\ hpc[c] = "tr2"
    /\ Len(rows) < MaxSid
    /\ LET sid == Len(rows) + 1 IN
       /\ rows' = Append(rows, EmotionRow(hloc[c].users))
       /\ room_sessions' = [sid |-> sid, ended |-> FALSE]
       /\ session_tasks' = NewTask(sid)
       /\ enq' = Enq(<<Ev("transition", sid, 0)>>)
    /\ session_responses' = NoResponses
    /\ hpc' = [hpc EXCEPT ![c] = "loop"]
    /\ hloc' = [hloc EXCEPT ![c] = NoLocals]
    /\ round' = Resolved
    /\ UNCHANGED <<userOf, active, orphans, awaiters, nVotes>>
    /\ UNCHANGED <<cmvars, vcvars, rmvars, auxvars>>

\* session.py:187-194, 288-300, 264 run by a vote handler
VoteEnd(c) ==
    /\ hpc[c] = "end1"
    /\ rows' = [rows EXCEPT ![hloc[c].sid].ended = TRUE]
    /\ enq' = Enq(<<Ev("final", 0, 0)>>)
    /\ room_sessions' = NoSession
    /\ session_tasks' = NoTask
    /\ session_responses' = NoResponses
    /\ hpc' = [hpc EXCEPT ![c] = "loop"]
    /\ hloc' = [hloc EXCEPT ![c] = NoLocals]
    /\ round' = Resolved
    /\ UNCHANGED <<userOf, active, orphans, awaiters, nVotes>>
    /\ UNCHANGED <<cmvars, vcvars, rmvars, auxvars>>

\* ================================================================ leave
\* websockets.py:310-322 and session.py:270-275, 286: the socket closed;
\* the user is unregistered; if nobody is left and a session is current,
\* end_session_for_room reads the row (when the session in memory has no
\* end_time) or clears the room's data at once
Close(c) ==
    /\ hpc[c] = "loop"
    /\ active' = Unregister(userOf[c])
    /\ IF Len(active') = 0 /\ room_sessions.sid # 0
       THEN IF ~room_sessions.ended
            THEN /\ hpc' = [hpc EXCEPT ![c] = "leave_get"]
                 /\ hloc' = [hloc EXCEPT ![c].sid = room_sessions.sid]
                 /\ UNCHANGED <<room_sessions, session_tasks, session_responses>>
            ELSE /\ hpc' = [hpc EXCEPT ![c] = "closed"]
                 /\ hloc' = hloc
                 /\ room_sessions' = NoSession
                 /\ session_tasks' = NoTask
                 /\ session_responses' = NoResponses
       ELSE /\ hpc' = [hpc EXCEPT ![c] = "closed"]
            /\ hloc' = hloc
            /\ UNCHANGED <<room_sessions, session_tasks, session_responses>>
    /\ UNCHANGED <<userOf, rows, orphans, awaiters, enq, nVotes, round>>
    /\ UNCHANGED <<cmvars, vcvars, rmvars, auxvars>>

\* session.py:275-278, 286: the row is read; an open row gets end_time and
\* its commit is awaited, a closed one leads to the clearing at once
LeaveGet(c) ==
    /\ hpc[c] = "leave_get"
    /\ IF ~rows[hloc[c].sid].ended
       THEN /\ hpc' = [hpc EXCEPT ![c] = "leave_commit"]
            /\ UNCHANGED <<hloc, room_sessions, session_tasks, session_responses>>
       ELSE /\ hpc' = [hpc EXCEPT ![c] = "closed"]
            /\ hloc' = [hloc EXCEPT ![c] = NoLocals]
            /\ room_sessions' = NoSession
            /\ session_tasks' = NoTask
            /\ session_responses' = NoResponses
    /\ UNCHANGED <<userOf, active, rows, orphans, awaiters, enq, nVotes, round>>
    /\ UNCHANGED <<cmvars, vcvars, rmvars, auxvars>>

\* session.py:278-286: the end is committed and the room's data cleared
LeaveCommit(c) ==
    /\ hpc[c] = "leave_commit"
    /\ rows' = [rows EXCEPT ![hloc[c].sid].ended = TRUE]
    /\ hpc' = [hpc EXCEPT ![c] = "closed"]
    /\ hloc' = [hloc EXCEPT ![c] = NoLocals]
    /\ room_sessions' = NoSession
    /\ session_tasks' = NoTask
    /\ session_responses' = NoResponses
    /\ UNCHANGED <<userOf, active, orphans, awaiters, enq, nVotes, round>>
    /\ UNCHANGED <<cmvars, vcvars, rmvars, auxvars>>

\* ================================================================= Spec
Next ==
    \/ \E c \in Chans : Connect(c)
    \/ \E c \in Chans : JoinCheck(c)
    \/ \E c \in Chans : StartCommitted(c)
    \/ AwaitResume
    \/ \E c \in Chans : StartAnnounce(c)
    \/ \E d \in LiveTasks : TimerStale(d)
    \/ \E d \in LiveTasks : TimerExpire(d)
    \/ \E d \in LiveTasks : TimerPrompt(d)
    \/ \E d \in LiveTasks : TimerAuto(d)
    \/ \E d \in LiveTasks : TimerTr1(d)
    \/ \E d \in LiveTasks : TimerTr2(d)
    \/ \E d \in LiveTasks : TimerEnd(d)
    \/ \E c \in Chans, b \in VoteChoices : Vote(c, b)
    \/ \E c \in Chans : VoteGet(c)
    \/ \E c \in Chans : ExtCommit(c)
    \/ \E c \in Chans : VoteTr1(c)
    \/ \E c \in Chans : VoteTr2(c)
    \/ \E c \in Chans : VoteEnd(c)
    \/ \E c \in Chans : Close(c)
    \/ \E c \in Chans : LeaveGet(c)
    \/ \E c \in Chans : LeaveCommit(c)

Spec == Init /\ [][Next]_vars

\* ======================================================================
\* SpecDB: Spec with commits that may raise
\* ======================================================================

\* session.py:46/88-91 (start), 240, 149, 165, 186 with 266-268 (vote
\* resolution): db.commit() raises in a handler; the except clause rolls
\* back and the call returns; the handler goes on with its receive loop
CommitRaises(c) ==
    /\ hpc[c] \in {"start_commit", "ext_commit", "tr1", "tr2", "end1"}
    /\ hpc' = [hpc EXCEPT ![c] = "loop"]
    /\ hloc' = [hloc EXCEPT ![c] = NoLocals]
    /\ UNCHANGED <<userOf, active, rows, room_sessions, session_tasks, orphans,
                   awaiters, session_responses, enq, nVotes, round>>
    /\ UNCHANGED <<cmvars, vcvars, rmvars, auxvars>>

\* session.py:149, 165, 186 with 141-142: db.commit() raises in a timeout
\* task; the task logs the error and ends
TimerCommitRaises(d) ==
    /\ d \in LiveTasks
    /\ d[2].pc \in {"tr1", "tr2", "end1"}
    /\ session_tasks' = SlotAfterReturn(d)
    /\ orphans' = OrphansAfterReturn(d)
    /\ UNCHANGED <<userOf, hpc, hloc, active, rows, room_sessions, awaiters,
                   session_responses, enq, nVotes, round>>
    /\ UNCHANGED <<cmvars, vcvars, rmvars, auxvars>>

\* session.py:278-286: db.commit() raises in end_session_for_room; the
\* except clause rolls back, then clear_room_session_data runs
LeaveCommitRaises(c) ==
    /\ hpc[c] = "leave_commit"
    /\ hpc' = [hpc EXCEPT ![c] = "closed"]
    /\ hloc' = [hloc EXCEPT ![c] = NoLocals]
    /\ room_sessions' = NoSession
    /\ session_tasks' = NoTask
    /\ session_responses' = NoResponses
    /\ UNCHANGED <<userOf, active, rows, orphans, awaiters, enq, nVotes, round>>
    /\ UNCHANGED <<cmvars, vcvars, rmvars, auxvars>>

NextDB ==
    \/ Next
    \/ \E c \in Chans : CommitRaises(c)
    \/ \E d \in LiveTasks : TimerCommitRaises(d)
    \/ \E c \in Chans : LeaveCommitRaises(c)

SpecDB == Init /\ [][NextDB]_vars

\* ======================================================================
\* SpecAuth: Spec with a third connection attempt whose token is rejected
\* or has no memberId
\* ======================================================================

\* websockets.py:65 with security.py:22-31: verify_token raises; the
\* handler ends without connect and without a disconnect that names a user
\* (user_id is unbound when the finally clause evaluates it)
Reject(c) ==
    /\ hpc[c] = "idle"
    /\ userOf[c] = Invalid
    /\ hpc' = [hpc EXCEPT ![c] = "closed"]
    /\ UNCHANGED <<userOf, hloc, active, rows, room_sessions, session_tasks, orphans,
                   awaiters, session_responses, enq, nVotes, round>>
    /\ UNCHANGED <<cmvars, vcvars, rmvars, auxvars>>

NextAuth ==
    \/ Next
    \/ \E c \in Chans : Reject(c)

SpecAuth == InitFor(AuthMaps) /\ [][NextAuth]_vars

\* ======================================================================
\* SpecCM: connection registry, room queue and message processor
\* (app/connection_manager.py).  connect and disconnect run under the room
\* lock and have no suspension point after websocket.accept(); each is one
\* step.  Producers are the callers of broadcast_to_room (chat relay, vote
\* resolution, timeout tasks); they may call at any time.
\* ======================================================================

\* a queue that hands out its newest item first
QPutFront(items, e) == <<e>> \o items

\* asyncio.Queue._put: deque.append
QPut(items, e) == Append(items, e)

\* a queue without capacity limit
QNeverFull(q) == FALSE

\* asyncio.Queue.full()
QFull(q) == Len(queues[q]) >= QueueSize

\* Queue.put_nowait wakes the getter: a processor suspended in get() on
\* this queue becomes runnable
WakeGetter(q) ==
    IF processor.pc = "wait" /\ processor.q = q
    THEN [processor EXCEPT !.pc = "woken"]
    ELSE processor

\* a check that starts a message processor whatever task is registered
ProcessorAlwaysMissing(p) == TRUE

\* connection_manager.py:47-48, 135: no task is registered for the room, or
\* the registered task is done
ProcessorMissing(p) == p.pc = "none"

\* asyncio.create_task(self.process_messages(room_id))
NewProcessor == [pc |-> "loop", q |-> 0, item |-> NoItem, todo |-> {}]

\* connection_manager.py:21-64: accept; a room without connections gets a
\* new queue; the socket is registered; a missing message processor is
\* started
CMConnectTo(c, pc) ==
    /\ hpc[c] = "idle"
    /\ userOf[c] # 0
    /\ IF active = <<>>
       THEN /\ nQueues < MaxQueues
            /\ nQueues' = nQueues + 1
            /\ pending_messages' = nQueues + 1
       ELSE UNCHANGED <<nQueues, pending_messages>>
    /\ active' = Register(userOf[c], c)
    /\ sock' = [sock EXCEPT ![c] = TRUE]
    /\ processor' = IF ProcessorMissing(processor) THEN NewProcessor ELSE processor
    /\ nProcessors' = IF ProcessorMissing(processor) THEN nProcessors + 1 ELSE nProcessors
    /\ hpc' = [hpc EXCEPT ![c] = pc]
    /\ UNCHANGED <<userOf, queues, putters, wokenPut, received, nEnq>>
    /\ room_lock' = TRUE
    /\ UNCHANGED <<smvars, vcvars, rmvars, auxvars>>

\* the endpoint after connect when only the registry and the dispatcher
\* are looked at: the handler is taken to its receive loop
CMConnect(c) == CMConnectTo(c, "loop")

\* the client closes its socket (the handler has not yet run its cleanup)
ClientClose(c) ==
    /\ hpc[c] = "loop"
    /\ sock[c]
    /\ sock' = [sock EXCEPT ![c] = FALSE]
    /\ UNCHANGED <<userOf, hpc, active, pending_messages, queues, nQueues,
                   putters, wokenPut, processor, received, nEnq, nProcessors>>
    /\ UNCHANGED room_lock
    /\ UNCHANGED <<smvars, vcvars, rmvars, auxvars>>

\* a leave that never finds the room empty
NeverEmptied(u) == FALSE

\* a leave that does not look whether the user is registered
RoomEmptiedUnchecked(u) == Unregister(u) = <<>>

\* connection_manager.py:87-91: the user was registered and was the last one
RoomEmptied(u) == u \in Members /\ Unregister(u) = <<>>

\* connection_manager.py:82-121: the room lock is looked up (and created
\* when missing); the user is unregistered; when the room is empty the
\* message processor is cancelled, the queue and the lock are removed
CMDisconnect(c) ==
    /\ hpc[c] = "loop"
    /\ ~sock[c]
    /\ hpc' = [hpc EXCEPT ![c] = "closed"]
    /\ active' = Unregister(userOf[c])
    /\ IF RoomEmptied(userOf[c])
       THEN /\ processor' = NoProcessor
            /\ nProcessors' = IF processor.pc = "none" THEN nProcessors ELSE nProcessors - 1
            /\ pending_messages' = 0
            /\ room_lock' = FALSE
       ELSE /\ room_lock' = TRUE
            /\ UNCHANGED <<processor, pending_messages, nProcessors>>
    /\ UNCHANGED <<userOf, queues, nQueues, putters, wokenPut, sock, received, nEnq>>
    /\ UNCHANGED <<smvars, vcvars, rmvars, auxvars>>

\* connection_manager.py:126-144: a missing queue is created together with
\* a message processor; the item is put into the room's queue, the
\* producer suspending while the queue is full
Broadcast(to) ==
    /\ nEnq + Len(putters) + Len(wokenPut) < MaxEv
    /\ pending_messages = 0 => nQueues < MaxQueues
    /\ LET q == IF pending_messages = 0 THEN nQueues + 1 ELSE pending_messages
           starts == pending_messages = 0 /\ ProcessorMissing(processor)
           p == IF starts THEN NewProcessor ELSE processor
       IN
       /\ pending_messages' = q
       /\ nProcessors' = IF starts THEN nProcessors + 1 ELSE nProcessors
       /\ nQueues' = IF pending_messages = 0 THEN nQueues + 1 ELSE nQueues
       /\ IF QFull(q)
          THEN /\ putters' = Append(putters, [q |-> q, to |-> to])
               /\ processor' = p
               /\ UNCHANGED <<queues, nEnq>>
          ELSE /\ queues' = [queues EXCEPT ![q] = QPut(@, [seq |-> nEnq + 1, to |-> to, empty |-> (active = <<>>)])]
               /\ nEnq' = nEnq + 1
               /\ processor' = IF p.pc = "wait" /\ p.q = q
                               THEN [p EXCEPT !.pc = "woken"] ELSE p
               /\ UNCHANGED putters
    /\ UNCHANGED <<userOf, hpc, active, wokenPut, sock, received>>
    /\ UNCHANGED room_lock
    /\ UNCHANGED <<smvars, vcvars, rmvars, auxvars>>

\* Queue.put resumed after a wake-up: the item is put, or the producer
\* waits again when the queue has filled up in the meantime
PutResume ==
    /\ wokenPut # <<>>
    /\ LET w == Head(wokenPut) IN
       IF QFull(w.q)
       THEN /\ putters' = Append(putters, w)
            /\ UNCHANGED <<queues, nEnq, processor>>
       ELSE /\ queues' = [queues EXCEPT ![w.q] = QPut(@, [seq |-> nEnq + 1, to |-> w.to, empty |-> (active = <<>>)])]
            /\ nEnq' = nEnq + 1
            /\ processor' = WakeGetter(w.q)
            /\ UNCHANGED putters
    /\ wokenPut' = Tail(wokenPut)
    /\ UNCHANGED <<userOf, hpc, active, pending_messages, nQueues, sock, received,
                   nProcessors>>
    /\ UNCHANGED room_lock
    /\ UNCHANGED <<smvars, vcvars, rmvars, auxvars>>

\* Queue.get_nowait wakes the first producer waiting on the queue
FirstPutter(q) ==
    LET S == {i \in 1..Len(putters) : putters[i].q = q} IN
    IF S = {} THEN 0 ELSE CHOOSE i \in S : \A j \in S : i <= j

RemoveAt(seq, i) == [j \in 1..(Len(seq) - 1) |-> IF j < i THEN seq[j] ELSE seq[j + 1]]

\* every registered socket, whatever the target of the item
RecipientsAll(item) == {active[i].ch : i \in 1..Len(active)}

\* connection_manager.py:184-207: the sockets an item is sent to, resolved
\* when the item is dequeued
Recipients(item) ==
    IF item.to # 0
    THEN {active[i].ch : i \in {j \in 1..Len(active) : active[j].u = item.to}}
    ELSE {active[i].ch : i \in 1..Len(active)}

\* connection_manager.py:176-214: the processor takes the head of queue q
\* and starts sending it, or discards it when it has no recipient
Take(q) ==
    LET item == Head(queues[q])
        i == FirstPutter(q)
        todo == Recipients(item)
    IN
    /\ queues' = [queues EXCEPT ![q] = Tail(@)]
    /\ IF i = 0
       THEN UNCHANGED <<putters, wokenPut>>
       ELSE /\ putters' = RemoveAt(putters, i)
            /\ wokenPut' = Append(wokenPut, putters[i])
    /\ processor' = IF todo = {}
                    THEN NewProcessor
                    ELSE [pc |-> "send", q |-> q, item |-> item, todo |-> todo]

\* connection_manager.py:168-176: top of the loop: without a queue the task
\* ends; an empty queue suspends it in get(); otherwise an item is taken
ProcessorLoop ==
    /\ processor.pc = "loop"
    /\ IF pending_messages = 0
       THEN /\ processor' = NoProcessor
            /\ nProcessors' = nProcessors - 1
            /\ UNCHANGED <<queues, putters, wokenPut>>
       ELSE /\ nProcessors' = nProcessors
            /\ IF queues[pending_messages] = <<>>
               THEN /\ processor' = [NewProcessor EXCEPT !.pc = "wait", !.q = pending_messages]
                    /\ UNCHANGED <<queues, putters, wokenPut>>
               ELSE Take(pending_messages)
    /\ UNCHANGED <<userOf, hpc, active, pending_messages, nQueues, sock, received, nEnq>>
    /\ UNCHANGED room_lock
    /\ UNCHANGED <<smvars, vcvars, rmvars, auxvars>>

\* connection_manager.py:176: get() resumes on the queue object it was
\* suspended on
ProcessorWoken ==
    /\ processor.pc = "woken"
    /\ Take(processor.q)
    /\ UNCHANGED <<userOf, hpc, active, pending_messages, nQueues, sock, received, nEnq,
                   nProcessors>>
    /\ UNCHANGED room_lock
    /\ UNCHANGED <<smvars, vcvars, rmvars, auxvars>>

\* a gather that gives up the other sends when one fails
AbortOnFailure(todo, ch) == IF sock[ch] THEN todo \ {ch} ELSE {}

\* connection_manager.py:148-161, 211-214: _send_to_websocket returns True or
\* False and never raises; the other sends of the gather go on
Remaining(todo, ch) == todo \ {ch}

\* connection_manager.py:146-161, 211-214: one send of the gather
\* completes (a closed socket makes it fail); after the last one the
\* processor is back at the top of its loop
Deliver(ch) ==
    /\ processor.pc = "send"
    /\ ch \in processor.todo
    /\ received' = IF sock[ch]
                   THEN [received EXCEPT ![userOf[ch]] = Append(@, processor.item.seq)]
                   ELSE received
    /\ processor' = IF Remaining(processor.todo, ch) = {}
                    THEN NewProcessor
                    ELSE [processor EXCEPT !.todo = Remaining(@, ch)]
    /\ UNCHANGED <<userOf, hpc, active, pending_messages, queues, nQueues,
                   putters, wokenPut, sock, nEnq, nProcessors>>
    /\ UNCHANGED room_lock
    /\ UNCHANGED <<smvars, vcvars, rmvars, auxvars>>

NextCM ==
    \/ \E c \in Chans : CMConnect(c)
    \/ \E c \in Chans : ClientClose(c)
    \/ \E c \in Chans : CMDisconnect(c)
    \/ \E to \in 0..PairSize : Broadcast(to)
    \/ PutResume
    \/ ProcessorLoop
    \/ ProcessorWoken
    \/ \E ch \in Chans : Deliver(ch)

SpecCM == Init /\ [][NextCM]_vars

\* ============================================ session-keyed vote collector
\* the two participants of the Session row, user_a_id and user_b_id
\* (api/sessions.py:97, api/websocket.py:130)
Expected == {1, 2}

\* set.discard that removes some element whatever the user
DiscardAny(users, u) ==
    IF users = {} THEN {} ELSE users \ {CHOOSE x \in users : TRUE}

\* self.pending_questions[session_id].discard(user_id) (api/sessions.py:119)
Discard(users, u) == users \ {u}

\* self.user_responses[session_id][user_id] = response_value
\* (api/sessions.py:114-116); TRUE is "extend_yes", FALSE any other value
VCPut(r, u, v) ==
    [present |-> TRUE, votes |-> {p \in r.votes : p[1] # u} \cup {<<u, v>>}]

\* pending_questions after record_user_response (api/sessions.py:118-124)
PendingAfter(pq, u) ==
    IF ~pq.present THEN pq
    ELSE IF Discard(pq.users, u) = {} THEN [present |-> FALSE, users |-> {}]
    ELSE [present |-> TRUE, users |-> Discard(pq.users, u)]

\* the value record_user_response returns (api/sessions.py:122-128)
record_user_response(pq, u) ==
    IF pq.present /\ Discard(pq.users, u) = {} THEN "all_responses_received"
    ELSE IF ~pq.present THEN "already_processed"
    ELSE "waiting"

\* perform_ext of chat_websocket (api/websocket.py:146-151)
perform_ext(r) == <<1, TRUE>> \in r.votes \/ <<2, TRUE>> \in r.votes

\* end_session_or_ask, first expiry of an active session: ask_to_continue
\* (api/sessions.py:143-151, 84-110)
VCAsk ==
    /\ vcTimer
    /\ vcRow.active /\ ~vcRow.ext
    /\ vcTimer' = FALSE
    /\ vcResponses' = [present |-> TRUE, votes |-> {}]
    /\ vcPending' = [present |-> TRUE, users |-> Expected]
    /\ vcRounds' = vcRounds + 1
    /\ vcVoted' = {}
    /\ vcActs' = 0
    /\ UNCHANGED <<vcRow, vcpc, vcRet, vcAll, nSub>>
    /\ UNCHANGED <<userOf, hpc, active, smvars, cmvars, rmvars, auxvars>>

\* end_session_or_ask, expiry of the extended minute: the session is closed
\* (api/sessions.py:152-165, 170-177)
VCTimerAuto ==
    /\ vcTimer
    /\ vcRow.active /\ vcRow.ext
    /\ vcTimer' = FALSE
    /\ vcRow' = [vcRow EXCEPT !.active = FALSE]
    /\ UNCHANGED <<vcResponses, vcPending, vcpc, vcRet, vcRounds, vcVoted, vcAll, vcActs, nSub>>
    /\ UNCHANGED <<userOf, hpc, active, smvars, cmvars, rmvars, auxvars>>

\* end_session_or_ask finds the session inactive (api/sessions.py:143, 165-166)
VCTimerStale ==
    /\ vcTimer
    /\ ~vcRow.active
    /\ vcTimer' = FALSE
    /\ UNCHANGED <<vcRow, vcResponses, vcPending, vcpc, vcRet, vcRounds, vcVoted, vcAll,
                   vcActs, nSub>>
    /\ UNCHANGED <<userOf, hpc, active, smvars, cmvars, rmvars, auxvars>>

\* chat_websocket receives a session_action of user u: record_user_response
\* and the decision on the number of recorded answers (api/websocket.py:121-151)
VCSubmit(u, v) ==
    /\ vcpc[u] = "loop"
    /\ nSub < MaxSubmit
    /\ nSub' = nSub + 1
    /\ vcResponses' = VCPut(vcResponses, u, v)
    /\ vcPending' = PendingAfter(vcPending, u)
    /\ vcRet' = [user |-> u, value |-> v, ret |-> record_user_response(vcPending, u)]
    /\ vcAll' = IF record_user_response(vcPending, u) = "all_responses_received"
                THEN vcAll + 1 ELSE vcAll
    /\ vcVoted' = vcVoted \cup {u}
    /\ vcpc' = IF Cardinality(VCPut(vcResponses, u, v).votes) < Cardinality(Expected)
               THEN vcpc
               ELSE [vcpc EXCEPT ![u] = IF perform_ext(VCPut(vcResponses, u, v))
                                         THEN "extend" ELSE "close"]
    /\ UNCHANGED <<vcRow, vcTimer, vcRounds, vcActs>>
    /\ UNCHANGED <<userOf, hpc, active, smvars, cmvars, rmvars, auxvars>>

\* the handler's action after its broadcast: the extension is committed and
\* the timer restarted, or the session is closed (api/websocket.py:172-180)
VCAct(u) ==
    /\ vcpc[u] \in {"extend", "close"}
    /\ IF vcpc[u] = "extend"
       THEN /\ vcRow' = [vcRow EXCEPT !.ext = TRUE]
            /\ vcTimer' = TRUE
       ELSE /\ vcRow' = [vcRow EXCEPT !.active = FALSE]
            /\ UNCHANGED vcTimer
    /\ vcActs' = vcActs + 1
    /\ vcpc' = [vcpc EXCEPT ![u] = "pop"]
    /\ UNCHANGED <<vcResponses, vcPending, vcRet, vcRounds, vcVoted, vcAll, nSub>>
    /\ UNCHANGED <<userOf, hpc, active, smvars, cmvars, rmvars, auxvars>>

\* manager.user_responses.pop(current_session_id, None) (api/websocket.py:182)
VCPop(u) ==
    /\ vcpc[u] = "pop"
    /\ vcResponses' = NoResponses
    /\ vcpc' = [vcpc EXCEPT ![u] = "loop"]
    /\ UNCHANGED <<vcRow, vcTimer, vcPending, vcRet, vcRounds, vcVoted, vcAll, vcActs, nSub>>
    /\ UNCHANGED <<userOf, hpc, active, smvars, cmvars, rmvars, auxvars>>

NextVC ==
    \/ VCAsk
    \/ VCTimerAuto
    \/ VCTimerStale
    \/ \E u \in Chans, v \in BOOLEAN : VCSubmit(u, v)
    \/ \E u \in Chans : VCAct(u)
    \/ \E u \in Chans : VCPop(u)

InitVC ==
    InitBase({PairMap}) /\ VCStart({Situation, Emotion}) /\ RoomsStart /\ LockStart
        /\ ChatStart /\ ClockStart

SpecVC == InitVC /\ [][NextVC]_vars

\* ==================================================== several rooms
Rooms == 1..MaxRooms
RoomUsers == 1..PairSize

\* every room's queue stored under one key
QueueShared(r) == 1

\* the key of room r in pending_messages (connection_manager.py:32, 103,
\* 130, 144, 173)
QueueOf(r) == r

\* the other dictionaries, keyed by room_id
RoomDo(r, st) ==
    /\ rmState' = [rmState EXCEPT ![r] = st]
    /\ lastRoom' = r
    /\ UNCHANGED <<userOf, hpc, active, smvars, cmvars, vcvars, auxvars>>

\* asyncio.Queue.put of one item by a caller that blocks while the queue
\* is full (connection_manager.py:144)
RoomPut(r, st) ==
    IF rmQueue[QueueOf(r)].len < RoomQueueSize
    THEN /\ rmQueue' = [rmQueue EXCEPT ![QueueOf(r)] = [has |-> TRUE, len |-> @.len + 1]]
         /\ RoomDo(r, st)
    ELSE /\ UNCHANGED rmQueue
         /\ RoomDo(r, [st EXCEPT !.blocked = TRUE])

\* ConnectionManager.connect (connection_manager.py:21-64)
RConnect(r, u) ==
    /\ rmQueue' = IF rmState[r].members = {} /\ ~rmQueue[QueueOf(r)].has
                  THEN [rmQueue EXCEPT ![QueueOf(r)] = [has |-> TRUE, len |-> 0]]
                  ELSE rmQueue
    /\ RoomDo(r, [rmState[r] EXCEPT !.members = @ \cup {u},
                                    !.lock = TRUE,
                                    !.proc = IF @ = "none" THEN "get" ELSE @])

\* start_new_initial_session once two members are registered
\* (websockets.py:141-173, session.py:30-61)
RStart(r) ==
    /\ Cardinality(rmState[r].members) = PairSize
    /\ ~rmState[r].session
    /\ UNCHANGED rmQueue
    /\ RoomDo(r, [rmState[r] EXCEPT !.session = TRUE, !.timer = TRUE])

\* ConnectionManager.disconnect and the clean-up of the endpoint
\* (connection_manager.py:82-121, websockets.py:310-329, session.py:270-300)
RDisconnect(r, u) ==
    /\ u \in rmState[r].members
    /\ IF rmState[r].members = {u}
       THEN /\ rmQueue' = [rmQueue EXCEPT ![QueueOf(r)] = NoQueue]
            /\ RoomDo(r, [NoRoom EXCEPT !.failed = rmState[r].failed])
       ELSE /\ UNCHANGED rmQueue
            /\ RoomDo(r, [rmState[r] EXCEPT !.members = @ \ {u}])

\* broadcast_to_room by a handler or a timeout task of the room
\* (connection_manager.py:126-144)
REnqueue(r) ==
    /\ rmState[r].members # {} \/ rmState[r].timer
    /\ ~rmState[r].blocked
    /\ RoomPut(r, [rmState[r] EXCEPT !.proc = IF ~rmQueue[QueueOf(r)].has /\ @ = "none"
                                               THEN "get" ELSE @])

\* process_messages takes an item; a blocked put completes
\* (connection_manager.py:169-175)
RGet(r) ==
    /\ rmState[r].proc = "get"
    /\ rmQueue[QueueOf(r)].has
    /\ rmQueue[QueueOf(r)].len > 0
    /\ rmQueue' = IF rmState[r].blocked THEN rmQueue
                  ELSE [rmQueue EXCEPT ![QueueOf(r)].len = @ - 1]
    /\ RoomDo(r, [rmState[r] EXCEPT !.proc = "send", !.blocked = FALSE])

\* process_messages has sent the item to the room's members, some send
\* having failed or not (connection_manager.py:185-240, 146-161)
RSend(r, ok) ==
    /\ rmState[r].proc = "send"
    /\ UNCHANGED rmQueue
    /\ RoomDo(r, [rmState[r] EXCEPT !.proc = "get", !.failed = ~ok])

\* _check_session_timeout: the period is over, the members are asked
\* (session.py:93-142)
RTimer(r) ==
    /\ rmState[r].timer
    /\ rmState[r].session
    /\ ~rmState[r].blocked
    /\ RoomPut(r, [rmState[r] EXCEPT !.timer = FALSE, !.votes = {}])

\* add_session_response: the answer is recorded; with both answers the
\* period is extended or the next topic starts, or the chat ends
\* (session.py:196-268, 144-194)
RVote(r, u, b) ==
    /\ rmState[r].session
    /\ ~rmState[r].timer
    /\ u \in rmState[r].members
    /\ UNCHANGED rmQueue
    /\ LET v == {p \in rmState[r].votes : p[1] # u} \cup {<<u, b>>}
       IN  IF Cardinality(v) < PairSize
           THEN RoomDo(r, [rmState[r] EXCEPT !.votes = v])
           ELSE \E last \in BOOLEAN :
                    IF last /\ \A p \in v : ~p[2]
                    THEN RoomDo(r, [rmState[r] EXCEPT !.votes = {}, !.session = FALSE])
                    ELSE RoomDo(r, [rmState[r] EXCEPT !.votes = {}, !.timer = TRUE])

NextRooms ==
    \E r \in Rooms :
        \/ \E u \in RoomUsers : RConnect(r, u)
        \/ RStart(r)
        \/ \E u \in RoomUsers : RDisconnect(r, u)
        \/ REnqueue(r)
        \/ RGet(r)
        \/ \E ok \in BOOLEAN : RSend(r, ok)
        \/ RTimer(r)
        \/ \E u \in RoomUsers, b \in BOOLEAN : RVote(r, u, b)

InitRooms == InitFor({PairMap})

SpecRooms == InitRooms /\ [][NextRooms]_vars

\* =============================================================== room lock
\* _get_room_lock (connection_manager.py:16-19): the lock of the room, a
\* new one when the dictionary has none
LockFor == IF lkDict = 0 THEN nLocks + 1 ELSE lkDict

\* asyncio.Lock.acquire returns at once: the lock is free and nobody waits
LockFree(l) == lkHeld[l] = 0 /\ lkWait[l] = <<>>

\* asyncio.Lock.release: the first waiter gets the lock and becomes
\* runnable at the head of its critical section
HeldAfterRelease(l) ==
    [lkHeld EXCEPT ![l] = IF lkWait[l] = <<>> THEN 0 ELSE Head(lkWait[l])]
WaitAfterRelease(l) ==
    [lkWait EXCEPT ![l] = IF @ = <<>> THEN <<>> ELSE Tail(@)]
PcAfterRelease(l, c, pc) ==
    [x \in Chans |->
        IF x = c THEN pc
        ELSE IF lkWait[l] # <<>> /\ x = Head(lkWait[l])
             THEN (IF lkpc[x] = "c_wait" THEN "c_accept" ELSE "d_crit")
             ELSE lkpc[x]]

\* connect (connection_manager.py:25-27): the lock is looked up and
\* acquired; the coroutine then awaits websocket.accept() inside it
LkConnect(c) ==
    /\ lkpc[c] = "idle"
    /\ userOf[c] # 0
    /\ LockFor <= MaxLocks
    /\ LET l == LockFor IN
       /\ nLocks' = IF lkDict = 0 THEN nLocks + 1 ELSE nLocks
       /\ lkDict' = l
       /\ lkloc' = [lkloc EXCEPT ![c] = l]
       /\ IF LockFree(l)
          THEN /\ lkHeld' = [lkHeld EXCEPT ![l] = c]
               /\ lkpc' = [lkpc EXCEPT ![c] = "c_accept"]
               /\ UNCHANGED lkWait
          ELSE /\ lkWait' = [lkWait EXCEPT ![l] = Append(@, c)]
               /\ lkpc' = [lkpc EXCEPT ![c] = "c_wait"]
               /\ UNCHANGED lkHeld
    /\ UNCHANGED lkReg
    /\ UNCHANGED <<userOf, hpc, active, smvars, cmvars, vcvars, rmvars, chvars, ckvars>>

\* connect (connection_manager.py:27-64): accept returns, the user is
\* registered, the lock is released
LkAccepted(c) ==
    /\ lkpc[c] = "c_accept"
    /\ lkReg' = lkReg \cup {userOf[c]}
    /\ lkHeld' = HeldAfterRelease(lkloc[c])
    /\ lkWait' = WaitAfterRelease(lkloc[c])
    /\ lkpc' = PcAfterRelease(lkloc[c], c, "loop")
    /\ UNCHANGED <<lkDict, lkloc, nLocks>>
    /\ UNCHANGED <<userOf, hpc, active, smvars, cmvars, vcvars, rmvars, chvars, ckvars>>

\* connect (connection_manager.py:27): accept raises because the client is
\* gone; the lock is released and the endpoint goes to its clean-up
\* (websockets.py:297-314)
LkAcceptFails(c) ==
    /\ lkpc[c] = "c_accept"
    /\ lkHeld' = HeldAfterRelease(lkloc[c])
    /\ lkWait' = WaitAfterRelease(lkloc[c])
    /\ lkpc' = PcAfterRelease(lkloc[c], c, "cleanup")
    /\ UNCHANGED <<lkDict, lkloc, lkReg, nLocks>>
    /\ UNCHANGED <<userOf, hpc, active, smvars, cmvars, vcvars, rmvars, chvars, ckvars>>

\* the critical section of disconnect (connection_manager.py:87-115); when
\* the room is emptied the lock is deleted from the dictionary
RegAfterLeave(c) == lkReg \ {userOf[c]}
DictAfterLeave(c, d) ==
    IF userOf[c] \in lkReg /\ RegAfterLeave(c) = {} THEN 0 ELSE d

\* disconnect (connection_manager.py:85-121) called from the clean-up of
\* the endpoint (websockets.py:310-314): the lock is looked up; when it is
\* free the critical section runs at once, otherwise the coroutine waits
LkLeave(c) ==
    /\ lkpc[c] \in {"loop", "cleanup"}
    /\ LockFor <= MaxLocks
    /\ LET l == LockFor IN
       /\ nLocks' = IF lkDict = 0 THEN nLocks + 1 ELSE nLocks
       /\ lkloc' = [lkloc EXCEPT ![c] = l]
       /\ IF LockFree(l)
          THEN /\ lkReg' = RegAfterLeave(c)
               /\ lkDict' = DictAfterLeave(c, l)
               /\ lkpc' = [lkpc EXCEPT ![c] = "closed"]
               /\ UNCHANGED <<lkHeld, lkWait>>
          ELSE /\ lkWait' = [lkWait EXCEPT ![l] = Append(@, c)]
               /\ lkpc' = [lkpc EXCEPT ![c] = "d_wait"]
               /\ lkDict' = l
               /\ UNCHANGED <<lkHeld, lkReg>>
    /\ UNCHANGED <<userOf, hpc, active, smvars, cmvars, vcvars, rmvars, chvars, ckvars>>

\* disconnect resumes with the lock: critical section and release
LkLeaveCrit(c) ==
    /\ lkpc[c] = "d_crit"
    /\ lkReg' = RegAfterLeave(c)
    /\ lkDict' = DictAfterLeave(c, lkDict)
    /\ lkHeld' = HeldAfterRelease(lkloc[c])
    /\ lkWait' = WaitAfterRelease(lkloc[c])
    /\ lkpc' = PcAfterRelease(lkloc[c], c, "closed")
    /\ UNCHANGED <<lkloc, nLocks>>
    /\ UNCHANGED <<userOf, hpc, active, smvars, cmvars, vcvars, rmvars, chvars, ckvars>>

NextLock ==
    \/ \E c \in Chans : LkConnect(c)
    \/ \E c \in Chans : LkAccepted(c)
    \/ \E c \in Chans : LkAcceptFails(c)
    \/ \E c \in Chans : LkLeave(c)
    \/ \E c \in Chans : LkLeaveCrit(c)

SpecLock == InitFor({ThirdMap, ReconnectMap}) /\ [][NextLock]_vars

\* =============================================================== chat order
\* the message loop (websockets.py:179-222) of a connection whose room has
\* a current session: a chat message arrives, the log row gets
\* timestamp=datetime.utcnow() (one tick of the clock per row) and the
\* coroutine awaits db.commit() on the connection's own database session
ChReceive(c) ==
    /\ chpc[c] = "loop"
    /\ userOf[c] # 0
    /\ chClock <= MaxMsgs
    /\ chTs' = [chTs EXCEPT ![c] = chClock]
    /\ chClock' = chClock + 1
    /\ chpc' = [chpc EXCEPT ![c] = "commit"]
    /\ UNCHANGED chQueue
    /\ UNCHANGED <<userOf, hpc, active, smvars, cmvars, vcvars, rmvars, lkvars, ckvars>>

\* the commit returns and the message is put on the room's queue with the
\* row's timestamp (websockets.py:222-233, connection_manager.py:143-144)
ChCommitted(c) ==
    /\ chpc[c] = "commit"
    /\ chQueue' = Append(chQueue, [u |-> userOf[c], ts |-> chTs[c]])
    /\ chpc' = [chpc EXCEPT ![c] = "loop"]
    /\ UNCHANGED <<chClock, chTs>>
    /\ UNCHANGED <<userOf, hpc, active, smvars, cmvars, vcvars, rmvars, lkvars, ckvars>>

NextChat ==
    \/ \E c \in Chans : ChReceive(c)
    \/ \E c \in Chans : ChCommitted(c)

SpecChat == InitFor({PairMap, ThirdMap}) /\ [][NextChat]_vars

\* =============================================================== timing
\* one tick of datetime.utcnow()
Tick ==
    /\ now < MaxNow
    /\ now' = now + 1
    /\ UNCHANGED <<ckRow, ckMem, ckTask, ckVotes, ckpc, ckActed>>
    /\ UNCHANGED <<userOf, hpc, active, smvars, cmvars, vcvars, rmvars, lkvars, chvars>>

\* _check_session_timeout (session.py:97-115): the task wakes from its
\* sleep; it ends when its session is not the current one; when the time
\* since start_time of the session object in room_sessions has reached the
\* duration it awaits db.get. Below the duration it sleeps again.
CkWake ==
    /\ ckTask = "sleep"
    /\ IF ckRow.ended
       THEN ckTask' = "done"
       ELSE /\ now - ckMem >= Duration
            /\ ckTask' = "get"
    /\ UNCHANGED <<now, ckRow, ckMem, ckVotes, ckpc, ckActed>>
    /\ UNCHANGED <<userOf, hpc, active, smvars, cmvars, vcvars, rmvars, lkvars, chvars>>

\* _check_session_timeout (session.py:115-138): db.get has returned the
\* row. With extension_used the session is closed (advance or end); the
\* close of session.py:148-149 and 185-186 is taken with it. Otherwise the
\* prompt is sent and session_responses is reset. The task ends.
CkTimerAct ==
    /\ ckTask = "get"
    /\ ckTask' = "done"
    /\ ckActed' = [kind |-> IF ckRow.ext THEN "auto" ELSE "prompt",
                   at |-> now, start |-> ckRow.start]
    /\ IF ckRow.ext
       THEN /\ ckRow' = [ckRow EXCEPT !.ended = TRUE]
            /\ UNCHANGED ckVotes
       ELSE /\ ckVotes' = {}
            /\ UNCHANGED ckRow
    /\ UNCHANGED <<now, ckMem, ckpc>>
    /\ UNCHANGED <<userOf, hpc, active, smvars, cmvars, vcvars, rmvars, lkvars, chvars>>

\* session_responses[room][user_id] = response (session.py:198-199)
CkPut(u, b) == {p \in ckVotes : p[1] # u} \cup {<<u, b>>}

\* add_session_response (session.py:196-225): the answer of a participant
\* is stored, with or without a prompt; with two answers the handler
\* awaits db.get
CkVote(u, b) ==
    /\ ckpc.pc = "loop"
    /\ ~ckRow.ended
    /\ ckVotes' = CkPut(u, b)
    /\ ckpc' = IF Cardinality(CkPut(u, b)) = PairSize
               THEN [ckpc EXCEPT !.pc = "vote_get"] ELSE ckpc
    /\ UNCHANGED <<now, ckRow, ckMem, ckTask, ckActed>>
    /\ UNCHANGED <<userOf, hpc, active, smvars, cmvars, vcvars, rmvars, lkvars, chvars>>

\* add_session_response (session.py:225-240, 258-262): db.get returns; on a
\* 'yes' extension_used and start_time = utcnow() are assigned and the
\* handler awaits the commit; on two 'no' it awaits the commit that closes
\* the session
CkVoteGet ==
    /\ ckpc.pc = "vote_get"
    /\ ckpc' = IF \E p \in ckVotes : p[2]
               THEN [pc |-> "ext_commit", t |-> now]
               ELSE [pc |-> "close_commit", t |-> 0]
    /\ UNCHANGED <<now, ckRow, ckMem, ckTask, ckVotes, ckActed>>
    /\ UNCHANGED <<userOf, hpc, active, smvars, cmvars, vcvars, rmvars, lkvars, chvars>>

\* add_session_response (session.py:240-241): the commit of the extension
\* returns, the handler awaits db.refresh
CkExtCommit ==
    /\ ckpc.pc = "ext_commit"
    /\ ckRow' = [ckRow EXCEPT !.ext = TRUE, !.start = ckpc.t]
    /\ ckpc' = [ckpc EXCEPT !.pc = "ext_refresh"]
    /\ UNCHANGED <<now, ckMem, ckTask, ckVotes, ckActed>>
    /\ UNCHANGED <<userOf, hpc, active, smvars, cmvars, vcvars, rmvars, lkvars, chvars>>

\* add_session_response (session.py:242-264): room_sessions gets the
\* refreshed row, the task is cancelled and a new one created, the answers
\* are deleted
CkExtDone ==
    /\ ckpc.pc = "ext_refresh"
    /\ ckMem' = ckRow.start
    /\ ckTask' = "sleep"
    /\ ckVotes' = {}
    /\ ckpc' = [pc |-> "loop", t |-> 0]
    /\ UNCHANGED <<now, ckRow, ckActed>>
    /\ UNCHANGED <<userOf, hpc, active, smvars, cmvars, vcvars, rmvars, lkvars, chvars>>

\* _transition_to_emotion_topic / _end_chat_after_emotion_extension after
\* two 'no' (session.py:148-173, 185-192, 264): the session is closed, its
\* task cancelled (one that has ended stays ended), the answers deleted
CkClose ==
    /\ ckpc.pc = "close_commit"
    /\ ckRow' = [ckRow EXCEPT !.ended = TRUE]
    /\ ckTask' = IF ckTask = "done" THEN "done" ELSE "cancelled"
    /\ ckVotes' = {}
    /\ ckpc' = [pc |-> "loop", t |-> 0]
    /\ UNCHANGED <<now, ckMem, ckActed>>
    /\ UNCHANGED <<userOf, hpc, active, smvars, cmvars, vcvars, rmvars, lkvars, chvars>>

NextClock ==
    \/ Tick
    \/ CkWake
    \/ CkTimerAct
    \/ \E u \in Expected, b \in BOOLEAN : CkVote(u, b)
    \/ CkVoteGet
    \/ CkExtCommit
    \/ CkExtDone
    \/ CkClose

SpecClock == InitFor({PairMap}) /\ [][NextClock]_vars

\* ========================================================== termination
\* The session machine together with the start of the dispatcher, for two
\* participants who join and stay, a database that never fails and
\* participants who answer each prompt they receive exactly once.

\* connection_manager.py:126-144 called for a room nobody has joined (a
\* task of an earlier conversation that broadcasts after the room was
\* emptied): the queue and the dispatcher are created by the broadcast
LateBroadcast ==
    /\ active = <<>>
    /\ nEnq < MaxLate
    /\ Broadcast(0)

\* websockets.py:76: connect, followed by the start check of the endpoint
JoinRoom(c) == CMConnectTo(c, "joined")

\* connection_manager.py:176, 184-214: what is put on pending_messages[room]
\* reaches the clients when the dispatcher is suspended in get() on that
\* queue object
Dispatching ==
    processor.pc \in {"wait", "woken"} /\ processor.q = pending_messages

\* a participant who has received the prompt and has not answered it yet
\* sends one "response" (websockets.py:188-198, session.py:196-225)
VoteOnce(c, b) ==
    /\ round = "open"
    /\ Dispatching
    /\ userOf[c] \notin {p[1] : p \in session_responses.votes}
    /\ Respond(c, b)
    /\ UNCHANGED nVotes

HandlerStep(c) ==
    \/ JoinCheck(c)
    \/ StartCommitted(c)
    \/ StartAnnounce(c)
    \/ VoteGet(c)
    \/ ExtCommit(c)
    \/ VoteTr1(c)
    \/ VoteTr2(c)
    \/ VoteEnd(c)

TimerRun(d) ==
    \/ TimerStale(d)
    \/ TimerExpire(d)
    \/ TimerPrompt(d)
    \/ TimerAuto(d)
    \/ TimerTr1(d)
    \/ TimerTr2(d)
    \/ TimerEnd(d)

NextFair ==
    \/ LateBroadcast
    \/ ProcessorLoop
    \/ \E c \in Chans : JoinRoom(c)
    \/ \E c \in Chans : HandlerStep(c)
    \/ AwaitResume
    \/ \E d \in LiveTasks : TimerRun(d)
    \/ \E c \in Chans, b \in BOOLEAN : VoteOnce(c, b)

\* asyncio runs every runnable coroutine: the dispatcher, the timeout
\* tasks, the handlers whose await has completed; both participants join;
\* a participant who has a prompt to answer answers it
Fairness ==
    /\ WF_vars(ProcessorLoop)
    /\ \A c \in Chans : WF_vars(JoinRoom(c))
    /\ \A c \in Chans : WF_vars(HandlerStep(c))
    /\ WF_vars(AwaitResume)
    /\ WF_vars(\E d \in LiveTasks : TimerRun(d))
    /\ \A c \in Chans : WF_vars(\E b \in BOOLEAN : VoteOnce(c, b))

SpecFair == InitFor({PairMap}) /\ [][NextFair]_vars /\ Fairness

\* =============================================================== claims
\* the rows without end_time
OpenRows == {i \in 1..Len(rows) : ~rows[i].ended}

\* C1: the Session rows of the room never include two rows that are
\* active (created and not yet closed with an end time) at the same time.
C1_AtMostOneActiveSession == Cardinality(OpenRows) <= 1

C3_AtMostOneLiveTimer == Cardinality(LiveTasks) <= 1

\* one step of the timeout task d
TimerStep(d) ==
    \/ TimerStale(d) \/ TimerExpire(d) \/ TimerPrompt(d) \/ TimerAuto(d)
    \/ TimerTr1(d) \/ TimerTr2(d) \/ TimerEnd(d)

\* C4: a step of a timeout task armed for session s, taken while the
\* room's current session is absent or has another id, changes no session
\* row, no current session, no vote set, enqueues nothing, arms no timer and
\* ends no other timer.
C4_StaleTimerNoEffect ==
    [][\A d \in LiveTasks :
          (IsStale(d[2]) /\ TimerStep(d)) =>
              /\ UNCHANGED <<rows, room_sessions, session_responses, enq>>
              /\ \A x \in LiveTasks' : x[2].pc = "sleep" => x \in LiveTasks
              /\ \A x \in LiveTasks : x # d => x \in LiveTasks']_vars

\* C5: once a vote round has resolved and until a new prompt is issued, no
\* vote submission starts another resolution (extension, topic advance or
\* end).
C5_ResolvedRoundStaysResolved ==
    [][\A c \in Chans, b \in BOOLEAN :
          (round = "resolved" /\ Vote(c, b)) => hpc'[c] = "loop"]_vars

\* C6: for each session the extension is granted (extension_used set and
\* start_time reset) at most once.
C6_ExtensionOnce == \A i \in 1..Len(rows) : rows[i].nExt <= 1

\* C7: a vote submitted while the current session has no outstanding
\* prompt changes no session, vote-set or timer state and starts no
\* resolution.
C7_VoteWithoutPromptRejected ==
    [][\A c \in Chans, b \in BOOLEAN :
          (room_sessions.sid # 0 /\ round # "open" /\ Vote(c, b)) =>
              /\ UNCHANGED <<rows, room_sessions, session_tasks, orphans,
                             session_responses>>
              /\ hpc'[c] = "loop"]_vars

\* C8: a vote submitted by a connected identity that is not one of the
\* current session's two participants is not stored, not counted and starts
\* no resolution.
C8_OutsiderVoteIgnored ==
    [][\A c \in Chans, b \in BOOLEAN :
          (/\ room_sessions.sid # 0
           /\ userOf[c] \notin rows[room_sessions.sid].users
           /\ Vote(c, b)) =>
              /\ UNCHANGED <<session_responses, enq>>
              /\ hpc'[c] = "loop"]_vars

\* the step in which the handler of channel c, having emptied a room with
\* a current session, finishes end_session_for_room
LeaveDone(c) ==
    \/ Close(c) /\ Len(active') = 0 /\ room_sessions.sid # 0 /\ hpc'[c] = "closed"
    \/ LeaveGet(c) /\ hpc'[c] = "closed"
    \/ LeaveCommit(c)

\* the session that was current when the handler of c emptied the room
LeftSid(c) == IF hpc[c] = "loop" THEN room_sessions.sid ELSE hloc[c].sid

\* C9: when the handler of the last participant to leave has finished, the
\* session row it found has an end time and the room has no current
\* session, no live timer and no vote set.
C9_EmptyRoomCleared ==
    [][\A c \in Chans :
          LeaveDone(c) =>
              /\ rows'[LeftSid(c)].ended
              /\ room_sessions' = NoSession
              /\ LiveTasks' = {}
              /\ session_responses' = NoResponses]_vars

\* C10: the start creates its session only while the room has no current
\* session; the session is a Situation session without extension and
\* becomes the current one; when the handler goes on to its one-second
\* sleep the session's timer is the room's timer; then the introduction
\* followed by the session-start event are enqueued to all.
C10_StartCreatesOneSession ==
    [][\A c \in Chans :
          /\ StartCommitted(c) =>
                /\ room_sessions.sid = 0
                /\ room_sessions'.sid = Len(rows')
                /\ rows'[Len(rows')].topic = Situation
                /\ rows'[Len(rows')].nExt = 0
          /\ (hpc[c] # "start_sleep" /\ hpc'[c] = "start_sleep") =>
                session_tasks' = NewTask(hloc'[c].sid)
          /\ StartAnnounce(c) =>
                enq'.items = <<Ev("intro", 0, 0),
                               Ev("session_start", hloc[c].sid, 0)>>]_vars

C12_Extend ==
    [][\A c \in Chans :
          /\ (VoteGet(c) /\ hloc[c].any) => hpc'[c] = "ext_commit"
          /\ ExtCommit(c) =>
                LET sid == hloc[c].sid IN
                /\ rows' = [rows EXCEPT ![sid].nExt = rows[sid].nExt + 1]
                /\ rows'[sid].nExt >= 1
                /\ room_sessions'.sid = sid
                /\ session_tasks' = NewTask(sid)
                /\ session_responses' = NoResponses
                /\ enq'.items = <<Ev(IF hloc[c].all THEN "extended_all"
                                     ELSE "extended_one", sid, 0)>>]_vars

\* a prompted round was resolved by one yes and one no: the session is
\* extended once and its new timer is armed
C12_Witness ==
    \E i \in 1..Len(rows) :
        /\ round = "resolved"
        /\ rows[i].nExt = 1
        /\ room_sessions.sid = i
        /\ session_tasks = NewTask(i)
        /\ enq.items = <<Ev("extended_one", i, 0)>>

\* the effects of _transition_to_emotion_topic once the Emotion row is
\* committed: the new Emotion session without extension is the room's
\* current session, its timer is the room's timer, the transition event is
\* broadcast to all
Advanced ==
    /\ Len(rows') = Len(rows) + 1
    /\ rows'[Len(rows')].topic = "topic_2_emotion"
    /\ rows'[Len(rows')].nExt = 0
    /\ ~rows'[Len(rows')].ended
    /\ room_sessions' = [sid |-> Len(rows'), ended |-> FALSE]
    /\ session_tasks' = NewTask(Len(rows'))
    /\ enq'.items = <<Ev("transition", Len(rows'), 0)>>

C14_End ==
    [][\A c \in Chans :
          /\ (/\ VoteGet(c)
              /\ ~hloc[c].any
              /\ rows[hloc[c].sid].topic = Emotion) => hpc'[c] = "end1"
          /\ VoteEnd(c) =>
                /\ rows' = [rows EXCEPT ![hloc[c].sid].ended = TRUE]
                /\ enq'.items = <<Ev("final", 0, 0)>>
                /\ room_sessions' = NoSession
                /\ session_responses' = NoResponses
                /\ session_tasks' = NoTask
                /\ LiveTasks' = {}]_vars

\* C15: a timeout task that finds the extension used sends no prompt and
\* opens no vote round; on a Situation session it closes the session and
\* creates, times and announces the Emotion session; on an Emotion session
\* it closes the session, broadcasts the closing message and leaves the
\* room without session, timer and vote set.
C15_TimeoutAutoAdvance ==
    [][\A d \in LiveTasks :
          /\ (~IsStale(d[2]) /\ TimerAuto(d)) =>
                UNCHANGED <<rows, room_sessions, session_responses, enq>>
          /\ TimerTr1(d) =>
                /\ rows' = [rows EXCEPT ![d[2].sid].ended = TRUE]
                /\ UNCHANGED <<session_responses, enq>>
                /\ \E x \in LiveTasks' : x[2].sid = d[2].sid /\ x[2].pc = "tr2"
          /\ TimerTr2(d) => Advanced /\ UNCHANGED session_responses
          /\ TimerEnd(d) =>
                /\ rows' = [rows EXCEPT ![d[2].sid].ended = TRUE]
                /\ enq'.items = <<Ev("final", 0, 0)>>
                /\ room_sessions' = NoSession
                /\ session_responses' = NoResponses
                /\ session_tasks' = NoTask
                /\ LiveTasks' = {}]_vars

\* C16: the first vote of an outstanding round, cast by a participant while
\* both participants are connected, puts exactly one "waiting" message
\* addressed to the voter in the queue and changes neither the session
\* rows, nor the current session, nor the timer tasks.
C16_Waiting ==
    [][\A c \in Chans, b \in BOOLEAN :
          (/\ Vote(c, b)
           /\ round = "open"
           /\ room_sessions.sid # 0
           /\ session_responses.votes = {}
           /\ userOf[c] \in rows[room_sessions.sid].users
           /\ rows[room_sessions.sid].users \subseteq Members)
          => /\ enq'.items = <<[type |-> "wait", sid |-> 0, to |-> userOf[c]]>>
             /\ session_responses'.votes = {<<userOf[c], b>>}
             /\ UNCHANGED <<rows, room_sessions, session_tasks, orphans>>]_vars

C16_Witness ==
    /\ round = "open"
    /\ room_sessions.sid # 0
    /\ Cardinality(session_responses.votes) = 1
    /\ rows[room_sessions.sid].users \subseteq Members
    /\ \E u \in rows[room_sessions.sid].users :
          /\ \E b \in BOOLEAN : session_responses.votes = {<<u, b>>}
          /\ enq.items = <<[type |-> "wait", sid |-> 0, to |-> u]>>

\* no handler is inside a start, a vote resolution or a leave, and no
\* timeout task is past its sleep
Quiescent ==
    /\ \A c \in Chans : hpc[c] \in {"idle", "joined", "start_sleep", "loop", "closed"}
    /\ \A d \in LiveTasks : d[2].pc = "sleep"

\* C17: whenever the room has a current session, no vote round is
\* outstanding and no operation is in progress, exactly one live timeout
\* task exists for the current session.
C17_TimerOrPrompt ==
    (Quiescent /\ room_sessions.sid # 0 /\ round # "open")
        => Cardinality({d \in LiveTasks : d[2].sid = room_sessions.sid}) = 1

\* C18: whatever the interleaving of connects, disconnects and broadcasts,
\* at most one process_messages task that has neither finished nor been
\* cancelled exists for the room.
C18_OneDispatcher == nProcessors <= 1

C18_Witness ==
    /\ nProcessors = 1
    /\ nQueues >= 2
    /\ Len(active) = PairSize
    /\ nEnq >= 1

\* C19: a queue never holds more than its capacity; a broadcast that finds
\* the room's queue full leaves the queue as it is and suspends the
\* producer, who puts its item only after the processor has taken one; an
\* item leaves a queue only from its head, taken by the processor, the
\* other items keeping their places; and while the room has a member its
\* queue is not replaced.
C19_BoundedQueue ==
    [][/\ \A q \in 1..MaxQueues : Len(queues'[q]) <= QueueSize
       /\ (pending_messages # 0 /\ QFull(pending_messages)
           /\ \E to \in 0..PairSize : Broadcast(to))
             => /\ queues' = queues
                /\ Len(putters') = Len(putters) + 1
       /\ \A q \in 1..MaxQueues :
             queues'[q] # queues[q] =>
                \/ /\ Len(queues[q]) < QueueSize
                   /\ Len(queues'[q]) = Len(queues[q]) + 1
                   /\ SubSeq(queues'[q], 1, Len(queues[q])) = queues[q]
                \/ /\ queues[q] # <<>>
                   /\ queues'[q] = Tail(queues[q])
                   /\ ProcessorLoop \/ ProcessorWoken
       /\ (Members # {} /\ Members' # {}) => pending_messages' = pending_messages]_vars

C19_Witness ==
    /\ Members # {}
    /\ pending_messages # 0
    /\ Len(queues[pending_messages]) = QueueSize
    /\ nEnq > QueueSize
    /\ processor.pc \in {"loop", "wait", "woken", "send"}

\* the processor dequeues an item in this step
Dequeues == (ProcessorLoop \/ ProcessorWoken) /\ queues' # queues

\* the item dequeued in this step
Dequeued == Head(queues[IF processor.pc = "woken" THEN processor.q ELSE pending_messages])

\* the sockets registered now for the user u, or for everybody (u = 0)
RegisteredNow(u) ==
    {active[i].ch : i \in {j \in 1..Len(active) : u = 0 \/ active[j].u = u}}

C21_FailedSendIsLocal ==
    [][\A ch \in Chans :
          /\ (Deliver(ch) /\ ~sock[ch]) =>
                /\ received' = received
                /\ active' = active
                /\ queues' = queues
                /\ nProcessors' = nProcessors
                /\ IF processor.todo = {ch}
                   THEN processor'.pc = "loop"
                   ELSE /\ processor'.pc = "send"
                        /\ processor'.item = processor.item
                        /\ processor'.todo = processor.todo \ {ch}
          /\ (Deliver(ch) /\ sock[ch]) =>
                received'[userOf[ch]] = Append(received[userOf[ch]], processor.item.seq)]_vars

\* user 1 received an earlier item, its socket is closed and still
\* registered, the send of the current broadcast item to it has failed and
\* the send to user 2 is due
C21_Witness ==
    /\ userOf = PairMap
    /\ processor.pc = "send"
    /\ processor.item.to = 0
    /\ processor.todo = {2}
    /\ ~sock[1] /\ hpc[1] = "loop" /\ 1 \in Members
    /\ received[1] # <<>>
    /\ \A i \in 1..Len(received[1]) : received[1][i] # processor.item.seq

\* queue q was created, is not the room's queue and no processor is
\* suspended in its get()
Torn(q) ==
    /\ q <= nQueues
    /\ q # pending_messages
    /\ ~(processor.pc \in {"wait", "woken"} /\ processor.q = q)

\* C22: a disconnect that removes the last registered user leaves the room
\* without connections, queue, registered processor, live processor task
\* and lock; the items of the removed queue are given to nobody then, and
\* never leave that queue afterwards.
C22_Teardown ==
    [][/\ \A c \in Chans :
             (CMDisconnect(c) /\ userOf[c] \in Members /\ Len(active) = 1) =>
                /\ active' = <<>>
                /\ pending_messages' = 0
                /\ processor'.pc = "none"
                /\ nProcessors' = 0
                /\ ~room_lock'
                /\ received' = received
                /\ \A q \in 1..MaxQueues : q = pending_messages => Torn(q)'
       /\ \A q \in 1..MaxQueues :
             Torn(q) => /\ Torn(q)'
                        /\ Len(queues'[q]) >= Len(queues[q])
                        /\ SubSeq(queues'[q], 1, Len(queues[q])) = queues[q]]_vars

\* the room has been torn down with an item left in its queue
C22_Witness ==
    /\ active = <<>>
    /\ pending_messages = 0
    /\ ~room_lock
    /\ nProcessors = 0
    /\ nQueues >= 1
    /\ queues[nQueues] # <<>>
    /\ \E c \in Chans : hpc[c] = "closed"

\* C23: a connect registers the new socket for its user; when the user was
\* registered already, the users of the room and their order stay the same
\* and no processor task is started; the registry never has two entries
\* for one user, and the entry of a user holds the socket of that user's
\* latest connect.
C23_JoinLastWriteWins ==
    [][\A c \in Chans : CMConnect(c) =>
          /\ \E i \in 1..Len(active') : active'[i] = [u |-> userOf[c], ch |-> c]
          /\ \A i, j \in 1..Len(active') : active'[i].u = active'[j].u => i = j
          /\ \A i \in 1..Len(active) :
                active[i].u # userOf[c] => active'[i] = active[i]
          /\ (\E i \in 1..Len(active) : active[i].u = userOf[c]) =>
                /\ Len(active') = Len(active)
                /\ Keys' = Keys
                /\ nProcessors' = nProcessors
                /\ pending_messages' = pending_messages]_vars

\* a user connected twice: the registry holds the second socket while the
\* handler of the first one is still running
C23_Witness ==
    /\ userOf = ReconnectMap
    /\ hpc[1] = "loop" /\ hpc[3] = "loop"
    /\ \E i \in 1..Len(active) : active[i] = [u |-> 1, ch |-> 3]
    /\ Len(active) = PairSize

\* C24: a disconnect for a user that is not registered (the room may be
\* unknown to the registry) changes neither the connections, nor the
\* room's queue and its items, nor the waiting producers, nor the
\* processor.
C24_LeaveUnregisteredNoOp ==
    [][\A c \in Chans :
          (CMDisconnect(c) /\ \A i \in 1..Len(active) : active[i].u # userOf[c]) =>
             UNCHANGED <<active, pending_messages, queues, nQueues, putters, wokenPut,
                         processor, nProcessors, received>>]_vars

\* a disconnect has run for a room that the registry does not know: the
\* room has its lock again, and nothing else
C24_Witness ==
    /\ active = <<>>
    /\ room_lock
    /\ \E c \in Chans : hpc[c] = "closed"

\* C25: a commit that raises leaves the room's current session, the session
\* rows, the vote set and the timeout tasks as they were (a timeout task
\* whose own commit raises ends).
C25_FailedPersistKeepsState ==
    [][/\ \A c \in Chans :
             (CommitRaises(c) \/ LeaveCommitRaises(c)) =>
                UNCHANGED <<rows, room_sessions, session_tasks, orphans, session_responses>>
       /\ \A d \in LiveTasks :
             TimerCommitRaises(d) => UNCHANGED <<rows, room_sessions, session_responses>>]_vars

\* C26: a connection attempt whose token is rejected or has no memberId
\* is never registered, and its handler changes neither the connections
\* nor the session rows, the current session, the timeout tasks, the
\* votes and the queue.
C26_BadTokenNoEffect ==
    [][/\ \A i \in 1..Len(active') : userOf[active'[i].ch] \notin {NoneId, Invalid}
       /\ \A c \in Chans :
             (userOf[c] \in {NoneId, Invalid} /\ hpc'[c] # hpc[c]) =>
                UNCHANGED <<active, rows, room_sessions, session_tasks, orphans,
                            session_responses, enq>>]_vars

\* C27: in a round begun by ask_to_continue, a submission returns 'waiting'
\* exactly while some expected participant has not submitted, returns
\* 'all_responses_received' exactly on the submission that completes the
\* expected participants (so at most once per round), and a submission
\* replaces the submitter's recorded choice and nobody else's.
C27_CollectorReturns ==
    [][(nSub' = nSub + 1 /\ vcRounds >= 1) =>
         /\ (vcRet'.ret = "waiting") <=> ~(Expected \subseteq vcVoted')
         /\ (vcRet'.ret = "all_responses_received") <=>
                (Expected \subseteq vcVoted' /\ ~(Expected \subseteq vcVoted))
         /\ vcAll' <= vcRounds
         /\ <<vcRet'.user, vcRet'.value>> \in vcResponses'.votes
         /\ \A p \in vcResponses'.votes : p[1] = vcRet'.user => p[2] = vcRet'.value
         /\ \A p \in vcResponses.votes : p[1] # vcRet'.user => p \in vcResponses'.votes]_vars

\* the round was completed by a submission that followed a repeated one
C27_Witness ==
    /\ vcRounds = 1
    /\ vcRet.ret = "all_responses_received"
    /\ nSub >= 3
    /\ vcVoted = Expected
    /\ vcResponses.votes = {<<1, FALSE>>, <<2, TRUE>>}

\* C28: once 'all_responses_received' has been returned for the session,
\* every later submission returns 'already_processed' and leaves the
\* recorded votes and the pending set unchanged, and the vote handlers
\* perform at most one extension, advance or end.
C28_RoundSingleUse ==
    /\ [][(nSub' = nSub + 1 /\ vcAll >= 1) =>
            /\ vcRet'.ret = "already_processed"
            /\ vcResponses' = vcResponses
            /\ vcPending' = vcPending]_vars
    /\ [](vcAll >= 1 => vcActs <= 1)

\* C29: an operation called for room r leaves the members, queue,
\* dispatcher, lock, current session, timer and votes of every other room
\* as they were; and while room r has a caller blocked on its full queue,
\* a dispatcher held up in a send or a failed send, the dispatcher of
\* another room that has an item queued can still take it.
C29_RoomIsolation ==
    /\ [][\A r \in 1..MaxRooms :
            lastRoom' = r =>
                \A o \in (1..MaxRooms) \ {r} :
                    rmState'[o] = rmState[o] /\ rmQueue'[o] = rmQueue[o]]_vars
    /\ [](\A r \in 1..MaxRooms : \A o \in (1..MaxRooms) \ {r} :
            (/\ rmState[r].blocked \/ rmState[r].proc = "send" \/ rmState[r].failed
             /\ rmState[o].proc = "get"
             /\ rmQueue[o].len > 0) => ENABLED RGet(o))

\* room 1 has a blocked caller, a dispatcher in a send and a failed send
\* behind it, and the dispatcher of room 2 has just taken an item
C29_Witness ==
    /\ lastRoom = 2
    /\ rmState[1].blocked /\ rmState[1].proc = "send" /\ rmState[1].failed
    /\ rmQueue[1].len = RoomQueueSize
    /\ rmState[2].proc = "send" /\ rmState[2].session
    /\ rmQueue[2].len = 0

\* C30: when the handler of a channel cleans up after its socket closed
\* while the registry holds a newer, still open channel of the same user,
\* the clean-up leaves the registry as it is, and neither the room's
\* current session nor its timeout task nor its votes are cleared.
C30_ReconnectKeepsNew ==
    [][\A c \in Chans :
          (/\ Close(c)
           /\ \E i \in 1..Len(active) :
                 /\ active[i].u = userOf[c]
                 /\ active[i].ch # c
                 /\ hpc[active[i].ch] = "loop") =>
             /\ active' = active
             /\ hpc'[c] = "closed"
             /\ UNCHANGED <<room_sessions, session_tasks, session_responses>>]_vars

\* C31: whenever the room has a member, a message processor suspended in
\* (or just woken from) Queue.get is waiting on the queue that
\* broadcast_to_room currently puts into, so that what is enqueued while the
\* room stays non-empty can be dequeued; also when the queue and the
\* processor were created by a broadcast to the room without members and a
\* user connected afterwards.
C31_DispatcherOnCurrentQueue ==
    (active # <<>> /\ processor.pc \in {"wait", "woken"})
        => processor.q = pending_messages

\* the positions of a handler between counting two votes and the end of
\* the resolution it then runs (session.py:225-264)
Resolving == {"vote_get", "ext_commit", "tr1", "tr2", "end1"}

\* C32: an outstanding round is acted on once: when a handler commits the
\* extension, the end of the Situation session or the end of the chat for
\* the round, no other handler is on its way through a resolution of the
\* same session, which it would complete with a second action.
C32_OneActionPerRound ==
    [][\A c \in Chans :
          (round = "open" /\ (ExtCommit(c) \/ VoteTr1(c) \/ VoteEnd(c))) =>
             \A c2 \in Chans \ {c} :
                ~(hpc[c2] \in Resolving /\ hloc[c2].sid = hloc[c].sid)]_vars

\* C33: while no operation is in progress, the room's current session is
\* not a closed one: neither the session object held in memory nor its row
\* has an end time.
C33_CurrentSessionOpen ==
    (Quiescent /\ room_sessions.sid # 0)
        => (~room_sessions.ended /\ ~rows[room_sessions.sid].ended)

\* C34: the vote set holds at most one choice per user; it is empty in the
\* state in which another session has become the room's current session,
\* and in the state in which an outstanding round has been resolved.
C34_VoteSetHygiene ==
    [][/\ \A p, q \in session_responses'.votes : p[1] = q[1] => p = q
       /\ (room_sessions'.sid # 0 /\ room_sessions'.sid # room_sessions.sid)
             => session_responses'.votes = {}
       /\ (round = "open" /\ round' = "resolved")
             => session_responses'.votes = {}]_vars

\* the participants of session sid that are registered in the room
ConnectedOf(sid) == IF sid = 0 THEN {} ELSE rows[sid].users \cap Members

\* C35: a vote received while fewer than two participants of the current
\* session are connected starts no resolution and changes no session row,
\* current session or timer; and no handler commits an extension, the end
\* of the Situation session or the end of the chat while fewer than two
\* participants of its session are connected.
C35_NoResolutionBelowTwo ==
    [][\A c \in Chans :
          /\ \A b \in BOOLEAN :
                (Vote(c, b) /\ Cardinality(ConnectedOf(room_sessions.sid)) < PairSize) =>
                    /\ hpc'[c] = "loop"
                    /\ UNCHANGED <<rows, room_sessions, session_tasks, round>>
          /\ (ExtCommit(c) \/ VoteTr1(c) \/ VoteEnd(c)) =>
                Cardinality(ConnectedOf(hloc[c].sid)) >= PairSize]_vars

\* C39: the connection registry of the room never holds more than two
\* users, whoever connects.
C39_AtMostTwoMembers == Cardinality(Members) <= PairSize

\* C36: no two critical sections of connect and disconnect of the room are
\* in progress at the same time: when a coroutine is inside one, no other
\* coroutine is, and a disconnect runs its critical section only while no
\* other coroutine is inside one.
C36_JoinLeaveSerialized ==
    [][\A c \in Chans :
          /\ lkpc'[c] \in {"c_accept", "d_crit"} =>
                \A c2 \in Chans \ {c} : lkpc'[c2] \notin {"c_accept", "d_crit"}
          /\ ((LkLeave(c) /\ lkpc'[c] = "closed") \/ LkLeaveCrit(c)) =>
                \A c2 \in Chans \ {c} : lkpc[c2] \notin {"c_accept", "d_crit"}]_vars

\* C38: two chat messages of the room sent by different participants are
\* enqueued, and so delivered, in the order of their persisted timestamps,
\* which is the order of the history replay (ORDER BY timestamp,
\* websockets.py:103-109).
C38_EnqueueOrderIsLogOrder ==
    \A i, j \in 1..Len(chQueue) :
        (i < j /\ chQueue[i].u # chQueue[j].u) => chQueue[i].ts < chQueue[j].ts

\* C40: a timeout action (prompt, auto-advance or end) of a session is
\* taken only when at least the segment duration has passed since the
\* session's start time as it is then, also after an extension has reset
\* the start time.
C40_TimeoutAfterDuration ==
    ckActed.kind # "none" => ckActed.at - ckActed.start >= Duration

\* C37: with both participants connected for good, a database that never
\* fails, one answer of each participant to each prompt and fair
\* scheduling of the timeout tasks and the dispatcher, a conversation that
\* has started comes to its end, with the room's session, timeout task
\* and answers cleared.
C37_StartedConversationEnds ==
    (room_sessions.sid # 0) ~>
        (room_sessions.sid = 0 /\ LiveTasks = {} /\ session_responses = NoResponses)

====
